---- MODULE Spec2Model ----
(***************************************************************************)
(* Verification model of rocketmanv9/vote-system.                          *)
(*                                                                         *)
(* Part I   token voting flow: components/weather-vote/VoteLanding.tsx     *)
(*          with its children SingleJobView, WelcomeScreen, SummaryScreen. *)
(* Part II  campaign voting page: app/vote/[campaignId]/page.tsx.          *)
(*                                                                         *)
(* React state variables are the VARIABLES.  Every event handler, effect   *)
(* and promise continuation is one action.  The components are client     *)
(* components of a Next.js app router project ("use client"), hence React  *)
(* 18: all setState calls of one continuation are batched in one render.   *)
(* Indices are 0-based as in the source; sequences are 1-based, so the     *)
(* item at index i is items[i + 1].                                        *)
(***************************************************************************)
EXTENDS Integers, Sequences, FiniteSets, TLC

(***************************************************************************)
(* Bounds of the model.                                                    *)
(***************************************************************************)
MaxItems == 3       \* longest item list of a context in the voting flow
MaxRawItems == 3    \* longest raw item list handed to dedupeItems
MaxVoteRows == 2    \* longest separate votes list handed to mapVotes

(***************************************************************************)
(* JavaScript values.  null/undefined of a string-typed field is NULL, of  *)
(* a number-typed field NullNum; an optional object is a sequence of       *)
(* length 0 (absent) or 1 (present).                                       *)
(***************************************************************************)
NULL == "<null>"
NullNum == 0 - 1

Truthy(s) == s # NULL /\ s # ""
Coalesce(a, b) == IF a # NULL THEN a ELSE b
CoalesceNum(a, b) == IF a # NullNum THEN a ELSE b
MaxOf(a, b) == IF a >= b THEN a ELSE b
MinOf(a, b) == IF a <= b THEN a ELSE b

EmptyMap == [k \in {} |-> NULL]
Put(m, k, v) == [x \in DOMAIN m \cup {k} |-> IF x = k THEN v ELSE m[x]]
SpreadMerge(a, b) ==
  [k \in DOMAIN a \cup DOMAIN b |-> IF k \in DOMAIN b THEN b[k] ELSE a[k]]
RemoveAt(s, i) == SubSeq(s, 1, i - 1) \o SubSeq(s, i + 1, Len(s))

(***************************************************************************)
(* Part I.  VoteLanding.tsx: keys, normalisation, vote merge.              *)
(***************************************************************************)
\* A key built from the job id and the date only.
getItemKeyWithoutLens(item) ==
  ToString(item.internal_job_id) \o "|" \o Coalesce(item.forecast_date, "")

getItemKey(item) ==
  ToString(item.internal_job_id) \o "|" \o Coalesce(item.forecast_date, "")
    \o "|" \o Coalesce(item.lens_id, "")

\* mapVotes: forEach over the list, result[key] = vote (a later entry
\* overwrites an earlier one).
RECURSIVE mapVotesFrom(_, _, _)
mapVotesFrom(voteRows, i, result) ==
  IF i > Len(voteRows) THEN result
  ELSE mapVotesFrom(voteRows, i + 1,
                    Put(result, getItemKey(voteRows[i]), voteRows[i]))

mapVotes(voteRows) == mapVotesFrom(voteRows, 1, EmptyMap)

\* dedupeItems: the for loop with its `seen` set.
RECURSIVE dedupeFrom(_, _, _, _)
dedupeFrom(list, i, seen, result) ==
  IF i > Len(list) THEN result
  ELSE IF getItemKey(list[i]) \in seen
       THEN dedupeFrom(list, i + 1, seen, result)
       ELSE dedupeFrom(list, i + 1, seen \cup {getItemKey(list[i])},
                       Append(result, list[i]))

dedupeItems(list) == dedupeFrom(list, 1, {}, <<>>)

\* The .map() callback of loadContext: alias resolution of one raw row.
\* The result is <<>> for a skipped row, else the one-element sequence of
\* the canonical item.
mapItemRow(row) ==
  LET internalJobId ==
        CoalesceNum(row.internal_job_id, CoalesceNum(row.job_id, row.acm_job_id))
      forecastDate == Coalesce(row.forecast_date, row.date)
      lensId == Coalesce(row.lens_id, row.lens)
  IN IF internalJobId = NullNum \/ ~Truthy(forecastDate) \/ lensId = NULL
     THEN <<>>
     ELSE << [internal_job_id |-> internalJobId,
              forecast_date |-> forecastDate,
              lens_id |-> lensId,
              existing_vote |-> row.existing_vote] >>

\* rawItems.map(...).filter(Boolean)
RECURSIVE mapItems(_)
mapItems(rows) ==
  IF rows = <<>> THEN <<>> ELSE mapItemRow(Head(rows)) \o mapItems(Tail(rows))

\* voteFromItems: the forEach over contextItems that seeds the vote map
\* from embedded existing votes.
embeddedVote(item) ==
  [internal_job_id |-> item.internal_job_id,
   forecast_date |-> item.forecast_date,
   lens_id |-> item.lens_id,
   vote_value |-> item.existing_vote[1].vote_value,
   vote_reason |-> item.existing_vote[1].vote_reason,
   voted_at |-> item.existing_vote[1].voted_at]

RECURSIVE voteFromItemsFrom(_, _, _)
voteFromItemsFrom(list, i, result) ==
  IF i > Len(list) THEN result
  ELSE IF list[i].existing_vote = <<>>
       THEN voteFromItemsFrom(list, i + 1, result)
       ELSE voteFromItemsFrom(list, i + 1,
                              Put(result, getItemKey(list[i]), embeddedVote(list[i])))

voteFromItems(list) == voteFromItemsFrom(list, 1, EmptyMap)

\* The spread in the other order: embedded votes overwrite the votes list.
mergeVotesEmbeddedWins(contextItems, voteRows) ==
  SpreadMerge(mapVotes(voteRows), voteFromItems(contextItems))

mergeVotes(contextItems, voteRows) ==
  SpreadMerge(voteFromItems(contextItems), mapVotes(voteRows))

\* votes[key]?.vote_value
voteValueAt(voteMap, key) ==
  IF key \in DOMAIN voteMap THEN voteMap[key].vote_value ELSE NULL

hasVoteValue(voteMap, item) == Truthy(voteValueAt(voteMap, getItemKey(item)))

\* allVoted of loadContext (Array.every, true of the empty list).
allVoted(list, voteMap) ==
  \A i \in 1..Len(list) : hasVoteValue(voteMap, list[i])

\* Array.findIndex: least 0-based index satisfying the test, else -1.
findIndex(list, Test(_, _)) ==
  LET hits == {idx \in 0..(Len(list) - 1) : Test(list[idx + 1], idx)}
  IN IF hits = {} THEN 0 - 1
     ELSE CHOOSE idx \in hits : \A other \in hits : idx <= other

\* The first-any-incomplete policy: the scan does not skip the items before
\* the closure's index.
nextUnvotedAnywhere(list, voteMap, index) ==
  LET Test(item, idx) == idx # index /\ ~hasVoteValue(voteMap, item)
  IN findIndex(list, Test)

\* nextUnvotedIndex of submitVote: forward scan after the closure's index.
nextUnvotedAfter(list, voteMap, index) ==
  LET Test(item, idx) == idx > index /\ ~hasVoteValue(voteMap, item)
  IN findIndex(list, Test)

\* firstUnvotedIndex of the welcome screen's onBegin.
firstUnvoted(list, voteMap) ==
  LET Test(item, idx) == ~hasVoteValue(voteMap, item)
  IN findIndex(list, Test)

\* The counts object without the floor of the derived remainder.
deriveCountsUnfloored(ctx, contextItems, mergedVotes) ==
  LET totalItems == CoalesceNum(ctx.total_items, Len(contextItems))
      votedItems == CoalesceNum(ctx.voted_items,
                      CoalesceNum(ctx.total_voted, Cardinality(DOMAIN mergedVotes)))
      remainingItems == CoalesceNum(ctx.remaining_items,
                          CoalesceNum(ctx.total_remaining,
                                      totalItems - votedItems))
  IN [total_items |-> totalItems,
      voted_items |-> votedItems,
      remaining_items |-> remainingItems]

\* The counts object of loadContext.
deriveCounts(ctx, contextItems, mergedVotes) ==
  LET totalItems == CoalesceNum(ctx.total_items, Len(contextItems))
      votedItems == CoalesceNum(ctx.voted_items,
                      CoalesceNum(ctx.total_voted, Cardinality(DOMAIN mergedVotes)))
      remainingItems == CoalesceNum(ctx.remaining_items,
                          CoalesceNum(ctx.total_remaining,
                                      MaxOf(0, totalItems - votedItems)))
  IN [total_items |-> totalItems,
      voted_items |-> votedItems,
      remaining_items |-> remainingItems]

(***************************************************************************)
(* Backend data the voting flow can receive.                               *)
(***************************************************************************)
Date1 == "2026-01-07"
Date2 == "2026-01-08"
Lens1 == "crew"
Lens2 == "crew|pm"

RawRow(id, date, lens, ev) ==
  [internal_job_id |-> id, job_id |-> NullNum, acm_job_id |-> NullNum,
   forecast_date |-> date, date |-> NULL,
   lens_id |-> lens, lens |-> NULL,
   existing_vote |-> ev]

\* A row of an older backend version: the same data under the alias names.
AliasRow(id, date, lens, ev) ==
  [internal_job_id |-> NullNum, job_id |-> id, acm_job_id |-> NullNum,
   forecast_date |-> NULL, date |-> date,
   lens_id |-> NULL, lens |-> lens,
   existing_vote |-> ev]

VoteRow(id, date, lens, value, why, at) ==
  [internal_job_id |-> id, forecast_date |-> date, lens_id |-> lens,
   vote_value |-> value, vote_reason |-> why, voted_at |-> at]

Embedded(value, why) ==
  << [vote_value |-> value, vote_reason |-> why, voted_at |-> "t0"] >>

Context(rawItems, voteRows) ==
  [items |-> rawItems, votes |-> voteRows,
   total_items |-> NullNum, voted_items |-> NullNum, total_voted |-> NullNum,
   remaining_items |-> NullNum, total_remaining |-> NullNum]

\* Contexts of the voting flow: n distinct items, none voted or all voted
\* through embedded votes.  FlowContext also builds "listed" (all voted
\* through the votes list) and "first" (only the first one voted).
FlowPatterns == {"none", "embedded"}

FlowContext(n, pattern) ==
  Context([i \in 1..n |->
             RawRow(i, Date1, Lens1,
                    IF pattern = "embedded" \/ (pattern = "first" /\ i = 1)
                    THEN Embedded("Decide at dispatch", "earlier") ELSE <<>>)],
          IF pattern = "listed"
          THEN [i \in 1..n |-> VoteRow(i, Date1, Lens1, "Cancel", "listed", "t0")]
          ELSE <<>>)

FlowContexts == {FlowContext(n, pattern) : n \in 0..MaxItems, pattern \in FlowPatterns}

NoVoteContexts == {FlowContext(n, "none") : n \in 1..MaxItems}

\* Contexts with aggregate counts: each count is left out (null) or reported,
\* as zero, as one, or as a number above the length of every item list.
CountedPatterns == {"none", "embedded", "listed", "first"}
ReportedCounts == {NullNum, 0, 1, MaxItems + 2}

\* Contexts for the normalizer.  Item lists with repeated and distinct
\* composite keys, alias rows and a row without lens (skipped):
DedupeRows ==
  {RawRow(k[1], k[2], k[3], ev) :
     k \in {<<1, Date1, Lens1>>, <<1, Date1, Lens2>>, <<1, Date2, Lens1>>,
            <<2, Date1, Lens1>>},
     ev \in {<<>>, Embedded("Cancel", "earlier")}}
  \cup {AliasRow(1, Date1, Lens1, Embedded("Dispatch anyway", "alias")),
        RawRow(2, Date1, NULL, <<>>)}

\* ... and item lists with and without embedded votes against votes lists
\* that hit the same keys, other keys, and one key several times.
MaxMergeItems == 2

MergeRows ==
  {RawRow(id, Date1, Lens1, ev) :
     id \in {1, 2}, ev \in {<<>>, Embedded("Dispatch anyway", "earlier")}}

MergeVoteRows ==
  {VoteRow(id, Date1, Lens1, value, "listed", "t1") :
     id \in {1, 2, 3}, value \in {NULL, "", "Cancel"}}


LoadErrors == {"Invalid or expired link.", "No voting context found for this token."}
SubmitErrors == {"Submit failed."}

\* What the voter can enter in SingleJobView.
VoteOptions == {"Dispatch anyway", "Cancel"}
ReasonTexts == {" ", "too risky"}

\* String.prototype.trim on the texts the voter can enter.
Trim(text) == IF text = " " THEN "" ELSE text

(***************************************************************************)
(* State of the voting flow.                                               *)
(***************************************************************************)
VARIABLES
  token,            \* prop of VoteLanding
  viewState,        \* useState<ViewState>('loading')
  error,            \* useState<string | null>(null)
  context,          \* useState<WeatherVoteContext | null>(null), <<>> = null
  items,            \* useState<WeatherVoteItem[]>([])
  votes,            \* useState<Record<string, WeatherVoteVote | null>>({})
  currentJobIndex,  \* useState(0)
  submitting,       \* useState(false)
  counts,           \* useState({total_items, voted_items, remaining_items})
  capturedVotes,    \* `votes` as closed over by the memoized submitVote
  selectedVote,     \* SingleJobView: useState<string | null>(null)
  reason,           \* SingleJobView: useState("")
  loadPhase,        \* position of loadContext: "init", "fetching", "done"
  requests,         \* submit requests in flight, with their closure
  timers,           \* pending setTimeout callbacks of submitVote
  backendVotes,     \* votes the backend has stored for this token
  alerted           \* text of the last window.alert, NULL before the first

\* The weather panel of the voting flow (toggleWeather).
VARIABLES
  expandedWeather,  \* useState<Set<string>>(new Set())
  weatherData,      \* useState<Record<string, any>>({})
  loadingWeather,   \* useState<Set<string>>(new Set())
  weatherRequests   \* the job-weather requests sent so far: their item keys

flowWeatherVars == <<expandedWeather, weatherData, loadingWeather, weatherRequests>>

flowVars == <<token, viewState, error, context, items, votes, currentJobIndex,
              submitting, counts, capturedVotes, selectedVote, reason,
              loadPhase, requests, timers, backendVotes, alerted,
              flowWeatherVars>>

(***************************************************************************)
(* State of the campaign voting page (Part II).                            *)
(***************************************************************************)
VARIABLES
  pageToken,        \* searchParams.get("t") ?? ""
  pageLoading,      \* useState(true)            (loading)
  pageError,        \* useState<string | null>   (error)
  person,           \* useState<PersonInfo | null>, <<>> = null
  assignments,      \* useState<Assignment[]>([])
  currentIndex,     \* useState(0)
  saving,           \* useState(false)
  saveError,        \* useState<string | null>(null)
  pagePc,           \* position of the load effect
  saPc,             \* position of submitAllVotes
  saSnapshot,       \* `assignments` as closed over by the running submitAllVotes
  saPos,            \* 1-based position of the loop in saSnapshot
  saUpdates,        \* the `updates` Map of the running submitAllVotes
  saRequest,        \* body of the POST /api/vote/submit in flight, <<>> = none
  editsWhileSaving  \* number of edits the voter made during the running save

\* The weather effect of the page, and the completion call.
VARIABLES
  weatherCache,     \* useState<Record<string, WeatherResponse | null>>({})
  weatherErrors,    \* useState<Record<string, string>>({})
  weatherLoading,   \* weatherLoadingRef.current: the keys set to true
  weatherInFlight,  \* loadWeather calls in flight: [key, cancelled]
  weatherDeps,      \* dependencies of the weather effect at its last run
  staleLoads,       \* load() calls whose effect was torn down: where each is
  reloads,          \* how often the load effect has run again
  hourly,           \* currentWeather.hourly at the last render with weather
  peak,             \* `peak` of that render, <<>> = null
  completeOutcome   \* how the last POST /api/vote/complete ended, NULL = none

pageWeatherVars == <<weatherCache, weatherErrors, weatherLoading, weatherInFlight,
                     weatherDeps, staleLoads, reloads, hourly, peak>>

pageVars == <<pageToken, pageLoading, pageError, person, assignments,
              currentIndex, saving, saveError, pagePc, saPc, saSnapshot,
              saPos, saUpdates, saRequest, editsWhileSaving,
              pageWeatherVars, completeOutcome>>

(***************************************************************************)
(* State of the backend behind the route handlers (Part III).              *)
(***************************************************************************)
VARIABLES
  dbRows,           \* table weather_vote_assignments, in the order it is listed
  dbPerson,         \* the voter's row of weather_vote_people
  dbTokens,         \* table weather_vote_tokens
  dbWeather,        \* what get_job_hourly_weather finds: job id -> result
  clock,            \* new Date() of the server
  apiResponse       \* the last answer of a route handler, <<>> before the first

serverVars == <<dbRows, dbPerson, dbTokens, dbWeather, clock, apiResponse>>

FlowInit ==
  /\ token \in {"", "tok"}
  /\ viewState = "loading"
  /\ error = NULL
  /\ context = <<>>
  /\ items = <<>>
  /\ votes = EmptyMap
  /\ currentJobIndex = 0
  /\ submitting = FALSE
  /\ counts = [total_items |-> 0, voted_items |-> 0, remaining_items |-> 0]
  /\ capturedVotes = EmptyMap
  /\ selectedVote = NULL
  /\ reason = ""
  /\ loadPhase = "init"
  /\ requests = <<>>
  /\ timers = <<>>
  /\ backendVotes = EmptyMap
  /\ alerted = NULL
  /\ expandedWeather = {}
  /\ weatherData = EmptyMap
  /\ loadingWeather = {}
  /\ weatherRequests = <<>>

\* The only call of loadContext is loadContext() from the mount effect.
showLoading == TRUE
allowViewReset == showLoading

\* useCallback(submitVote, []): the closure of the first render for ever.
submitVoteClosureNeverRenewed(newIndex, newLength, newVotes) == capturedVotes

\* useCallback(submitVote, [currentJobIndex, items.length]): the closure,
\* and with it the `votes` it reads, is renewed only by a render in which
\* one of the two dependencies changed.
submitVoteClosure(newIndex, newLength, newVotes) ==
  IF newIndex # currentJobIndex \/ newLength # Len(items)
  THEN newVotes ELSE capturedVotes

\* items[currentJobIndex]
hasCurrentItem == currentJobIndex >= 0 /\ currentJobIndex < Len(items)
currentItem == items[currentJobIndex + 1]

\* SingleJobView is rendered, with its local state, only on the voting
\* screen; leaving the screen unmounts it.
localAfter(newView, value, initial) == IF newView = "voting" THEN value ELSE initial

(***************************************************************************)
(* loadContext                                                             *)
(***************************************************************************)
LoadStart ==
  /\ loadPhase = "init"
  /\ IF ~Truthy(token)
     THEN /\ error' = "Missing token."
          /\ viewState' = "error"
          /\ loadPhase' = "done"
     ELSE /\ viewState' = IF showLoading THEN "loading" ELSE viewState
          /\ error' = NULL
          /\ loadPhase' = "fetching"
  /\ UNCHANGED <<pageVars, serverVars, flowWeatherVars, alerted, token, context, items, votes, currentJobIndex, submitting,
                 counts, capturedVotes, selectedVote, reason, requests,
                 timers, backendVotes>>

\* allVoted without the length test.
loadedViewWithoutLengthTest(contextItems, mergedVotes) ==
  IF allVoted(contextItems, mergedVotes)
  THEN "summary"
  ELSE IF allowViewReset THEN "welcome" ELSE viewState

loadedView(contextItems, mergedVotes) ==
  IF allVoted(contextItems, mergedVotes) /\ Len(contextItems) > 0
  THEN "summary"
  ELSE IF allowViewReset THEN "welcome" ELSE viewState

clampIndex(prev, length) ==
  IF prev >= length THEN MaxOf(0, length - 1) ELSE prev

LoadApply(ctx) ==
  LET contextItems == dedupeItems(mapItems(ctx.items))
      mergedVotes == mergeVotes(contextItems, ctx.votes)
      newIndex == clampIndex(currentJobIndex, Len(contextItems))
      newView == loadedView(contextItems, mergedVotes)
  IN /\ loadPhase = "fetching"
     /\ context' = <<ctx>>
     /\ items' = contextItems
     /\ votes' = mergedVotes
     /\ counts' = deriveCounts(ctx, contextItems, mergedVotes)
     /\ currentJobIndex' = newIndex
     /\ viewState' = newView
     /\ capturedVotes' = submitVoteClosure(newIndex, Len(contextItems), mergedVotes)
     /\ selectedVote' = localAfter(newView, selectedVote, NULL)
     /\ reason' = localAfter(newView, reason, "")
     /\ loadPhase' = "done"
     /\ UNCHANGED <<pageVars, serverVars, flowWeatherVars, alerted, token, error, submitting, requests, timers, backendVotes>>

LoadSucceed == \E ctx \in FlowContexts : LoadApply(ctx)

\* The same continuation, on the contexts of the normalizer and on the
\* contexts without votes.
LoadNormalize ==
  /\ loadPhase = "fetching"
  /\ \/ \E m \in 0..MaxRawItems : \E rows \in [1..m -> DedupeRows] :
          LoadApply(Context(rows, <<>>))
     \/ \E m \in 0..MaxMergeItems, n \in 0..MaxVoteRows :
          \E rows \in [1..m -> MergeRows], voteRows \in [1..n -> MergeVoteRows] :
            LoadApply(Context(rows, voteRows))

LoadNoVotes == \E ctx \in NoVoteContexts : LoadApply(ctx)

\* ... and on contexts whose aggregate counts the backend reports, under
\* either name of each count, or leaves out.
LoadCounted ==
  /\ loadPhase = "fetching"
  /\ \E n \in 0..MaxItems, pattern \in CountedPatterns :
       \E total, voted, totalVoted, remaining, totalRemaining \in ReportedCounts :
         LoadApply([FlowContext(n, pattern) EXCEPT
                      !.total_items = total,
                      !.voted_items = voted,
                      !.total_voted = totalVoted,
                      !.remaining_items = remaining,
                      !.total_remaining = totalRemaining])

LoadFail ==
  /\ loadPhase = "fetching"
  /\ \E message \in LoadErrors : error' = message
  /\ viewState' = "error"
  /\ selectedVote' = localAfter("error", selectedVote, NULL)
  /\ reason' = localAfter("error", reason, "")
  /\ loadPhase' = "done"
  /\ UNCHANGED <<pageVars, serverVars, flowWeatherVars, alerted, token, context, items, votes, currentJobIndex, submitting,
                 counts, capturedVotes, requests, timers, backendVotes>>

(***************************************************************************)
(* Welcome screen.  WelcomeScreen takes only voterName, totalJobs and      *)
(* onBegin: the onGoToSummary and hasSummary props VoteLanding passes are  *)
(* not part of its props and nothing invokes them.  Likewise SingleJobView *)
(* takes no onNavigatePrev/onNavigateNext; navigation is by arrow key.     *)
(***************************************************************************)
\* onBegin that opens the summary when nothing is left to vote on.
OnBeginSkippingVoted ==
  LET firstUnvotedIndex == firstUnvoted(items, votes)
      newIndex == IF firstUnvotedIndex >= 0 THEN firstUnvotedIndex ELSE 0
  IN /\ viewState = "welcome"
     /\ currentJobIndex' = newIndex
     /\ viewState' = IF firstUnvotedIndex >= 0 THEN "voting" ELSE "summary"
     /\ capturedVotes' = submitVoteClosure(newIndex, Len(items), votes)
     /\ UNCHANGED <<pageVars, serverVars, flowWeatherVars, alerted, token, error, context, items, votes,
                    submitting, counts, selectedVote, reason, loadPhase,
                    requests, timers, backendVotes>>

OnBegin ==
  LET firstUnvotedIndex == firstUnvoted(items, votes)
      newIndex == IF firstUnvotedIndex >= 0 THEN firstUnvotedIndex ELSE 0
  IN /\ viewState = "welcome"
     /\ currentJobIndex' = newIndex
     /\ viewState' = "voting"
     /\ capturedVotes' = submitVoteClosure(newIndex, Len(items), votes)
     /\ UNCHANGED <<pageVars, serverVars, flowWeatherVars, alerted, token, error, context, items, votes, submitting, counts,
                    selectedVote, reason, loadPhase, requests, timers,
                    backendVotes>>

\* Render of the voting screen without a current item: setViewState('summary').
VotingWithoutItem ==
  /\ viewState = "voting"
  /\ ~hasCurrentItem
  /\ viewState' = "summary"
  /\ selectedVote' = NULL
  /\ reason' = ""
  /\ UNCHANGED <<pageVars, serverVars, flowWeatherVars, alerted, token, error, context, items, votes, currentJobIndex,
                 submitting, counts, capturedVotes, loadPhase, requests,
                 timers, backendVotes>>

(***************************************************************************)
(* Voting screen: keyboard navigation and SingleJobView.                   *)
(***************************************************************************)
moveTo(newIndex) ==
  /\ currentJobIndex' = newIndex
  /\ capturedVotes' = submitVoteClosure(newIndex, Len(items), votes)
  /\ UNCHANGED <<pageVars, serverVars, flowWeatherVars, alerted, token, viewState, error, context, items, votes, submitting,
                 counts, selectedVote, reason, loadPhase, requests, timers,
                 backendVotes>>

ArrowPrev ==
  /\ viewState = "voting"
  /\ hasCurrentItem
  /\ moveTo(MaxOf(0, currentJobIndex - 1))

\* An ArrowRight handler without the Math.min.
ArrowNextUnbounded ==
  /\ viewState = "voting"
  /\ hasCurrentItem
  /\ moveTo(currentJobIndex + 1)

ArrowNext ==
  /\ viewState = "voting"
  /\ hasCurrentItem
  /\ moveTo(MinOf(Len(items) - 1, currentJobIndex + 1))

\* onNavigatePrev and onNavigateNext, the handlers VoteLanding hands to
\* SingleJobView: outside their guard a press changes nothing.
NavigatePrev ==
  /\ viewState = "voting"
  /\ hasCurrentItem
  /\ IF currentJobIndex > 0
     THEN moveTo(currentJobIndex - 1)
     ELSE UNCHANGED <<flowVars, pageVars, serverVars>>

NavigateNext ==
  /\ viewState = "voting"
  /\ hasCurrentItem
  /\ IF currentJobIndex < Len(items) - 1
     THEN moveTo(currentJobIndex + 1)
     ELSE UNCHANGED <<flowVars, pageVars, serverVars>>

\* handleVoteClick; the option buttons are disabled while submitting.
SelectVote ==
  /\ viewState = "voting"
  /\ hasCurrentItem
  /\ ~submitting
  /\ \E value \in VoteOptions : selectedVote' = value
  /\ UNCHANGED <<pageVars, serverVars, flowWeatherVars, alerted, token, viewState, error, context, items, votes,
                 currentJobIndex, submitting, counts, capturedVotes, reason,
                 loadPhase, requests, timers, backendVotes>>

\* onChange of the reason textarea, disabled while submitting.
TypeReason ==
  /\ viewState = "voting"
  /\ hasCurrentItem
  /\ ~submitting
  /\ \E text \in ReasonTexts : reason' = text
  /\ UNCHANGED <<pageVars, serverVars, flowWeatherVars, alerted, token, viewState, error, context, items, votes,
                 currentJobIndex, submitting, counts, capturedVotes,
                 selectedVote, loadPhase, requests, timers, backendVotes>>

\* disabled={!selectedVote || !reason.trim()}
submitEnabledWhileBusy == Truthy(selectedVote) /\ Truthy(Trim(reason))

\* disabled={submitting || !selectedVote || !reason.trim()}
submitEnabled == ~submitting /\ Truthy(selectedVote) /\ Truthy(Trim(reason))

\* SingleJobView.handleSubmit -> handleVote -> submitVote up to its fetch.
\* The request carries what the continuation will read from the closure:
\* the key, the closure's currentJobIndex and the closure's votes.
HandleSubmit ==
  /\ viewState = "voting"
  /\ hasCurrentItem
  /\ submitEnabled
  /\ submitting' = TRUE
  /\ requests' = Append(requests,
       [key |-> getItemKey(currentItem),
        internalJobId |-> currentItem.internal_job_id,
        forecastDate |-> currentItem.forecast_date,
        lensId |-> currentItem.lens_id,
        voteValue |-> selectedVote,
        voteReason |-> reason,
        index |-> currentJobIndex,
        votes |-> capturedVotes])
  /\ UNCHANGED <<pageVars, serverVars, flowWeatherVars, alerted, token, viewState, error, context, items, votes,
                 currentJobIndex, counts, capturedVotes, selectedVote, reason,
                 loadPhase, timers, backendVotes>>

\* The vote object submitVote stores under the key.
submittedVote(request) ==
  [internal_job_id |-> request.internalJobId,
   forecast_date |-> request.forecastDate,
   lens_id |-> request.lensId,
   vote_value |-> request.voteValue,
   vote_reason |-> request.voteReason,
   voted_at |-> "now"]

\* const updatedVotes = { ...votes, [key]: {...} }
updatedVotes(request) == Put(request.votes, request.key, submittedVote(request))

\* submitVote after an OK response, up to and including setTimeout.
SubmitSucceed ==
  \E r \in DOMAIN requests :
    LET request == requests[r]
        newVotes == updatedVotes(request)
    IN /\ votes' = newVotes
       /\ timers' = Append(timers,
            [from |-> request.index,
             next |-> nextUnvotedAfter(items, newVotes, request.index)])
       /\ requests' = RemoveAt(requests, r)
       /\ backendVotes' = Put(backendVotes, request.key, submittedVote(request))
       /\ capturedVotes' = submitVoteClosure(currentJobIndex, Len(items), newVotes)
       /\ UNCHANGED <<pageVars, serverVars, flowWeatherVars, alerted, token, viewState, error, context, items, currentJobIndex,
                      submitting, counts, selectedVote, reason, loadPhase>>

\* A catch that also resets the form.
SubmitFailClearingInput ==
  \E r \in DOMAIN requests :
    /\ requests' = RemoveAt(requests, r)
    /\ \E message \in SubmitErrors : alerted' = message
    /\ submitting' = FALSE
    /\ selectedVote' = NULL
    /\ reason' = ""
    /\ UNCHANGED <<pageVars, serverVars, flowWeatherVars, token, viewState, error, context, items, votes,
                   currentJobIndex, counts, capturedVotes, loadPhase, timers,
                   backendVotes>>

\* submitVote's catch: alert(message); setSubmitting(false).
SubmitFail ==
  \E r \in DOMAIN requests :
    /\ requests' = RemoveAt(requests, r)
    /\ \E message \in SubmitErrors : alerted' = message
    /\ submitting' = FALSE
    /\ UNCHANGED <<pageVars, serverVars, flowWeatherVars, token, viewState, error, context, items, votes,
                   currentJobIndex, counts, capturedVotes, selectedVote,
                   reason, loadPhase, timers, backendVotes>>

\* The setTimeout callback, 800 ms after the successful response.
DelayFire ==
  /\ timers # <<>>
  /\ LET timer == Head(timers)
         newIndex == IF timer.next >= 0 THEN timer.next ELSE currentJobIndex
         newView == IF timer.next >= 0 THEN viewState ELSE "summary"
     IN /\ currentJobIndex' = newIndex
        /\ viewState' = newView
        /\ capturedVotes' = submitVoteClosure(newIndex, Len(items), votes)
        /\ selectedVote' = localAfter(newView, selectedVote, NULL)
        /\ reason' = localAfter(newView, reason, "")
  /\ submitting' = FALSE
  /\ timers' = Tail(timers)
  /\ UNCHANGED <<pageVars, serverVars, flowWeatherVars, alerted, token, error, context, items, votes, counts, loadPhase,
                 requests, backendVotes>>

\* A back action that resumes voting instead of showing the welcome screen.
OnGoBackToVoting ==
  /\ viewState = "summary"
  /\ viewState' = "voting"
  /\ UNCHANGED <<pageVars, serverVars, flowWeatherVars, alerted, token, error, context, items, votes,
                 currentJobIndex, submitting, counts, capturedVotes,
                 selectedVote, reason, loadPhase, requests, timers,
                 backendVotes>>

\* SummaryScreen onGoBack.
OnGoBack ==
  /\ viewState = "summary"
  /\ viewState' = "welcome"
  /\ UNCHANGED <<pageVars, serverVars, flowWeatherVars, alerted, token, error, context, items, votes, currentJobIndex,
                 submitting, counts, capturedVotes, selectedVote, reason,
                 loadPhase, requests, timers, backendVotes>>

(***************************************************************************)
(* toggleWeather                                                           *)
(***************************************************************************)
MaxWeatherRequests == 3   \* job-weather requests the flow sends in one run

\* weatherData[key] as a condition: no entry and a null entry are falsy.
hasWeather(data, key) == key \in DOMAIN data /\ data[key] # NULL

\* onToggleWeather of the job on screen, to the await of its fetch.
ToggleWeather ==
  /\ viewState = "voting"
  /\ hasCurrentItem
  /\ LET key == getItemKey(currentItem)
     IN /\ expandedWeather' = IF key \in expandedWeather
                              THEN expandedWeather \ {key}
                              ELSE expandedWeather \cup {key}
        /\ IF hasWeather(weatherData, key) \/ key \in loadingWeather
           THEN UNCHANGED <<loadingWeather, weatherRequests>>
           ELSE /\ Len(weatherRequests) < MaxWeatherRequests
                /\ loadingWeather' = loadingWeather \cup {key}
                /\ weatherRequests' = Append(weatherRequests, key)
  /\ UNCHANGED <<pageVars, serverVars, weatherData, alerted, token, viewState,
                 error, context, items, votes, currentJobIndex, submitting,
                 counts, capturedVotes, selectedVote, reason, loadPhase,
                 requests, timers, backendVotes>>

\* The fetch answers OK: payload.weather is stored, then finally.
WeatherSucceed ==
  /\ \E key \in loadingWeather :
       /\ weatherData' = Put(weatherData, key, "weather")
       /\ loadingWeather' = loadingWeather \ {key}
  /\ UNCHANGED <<pageVars, serverVars, expandedWeather, weatherRequests, alerted,
                 token, viewState, error, context, items, votes,
                 currentJobIndex, submitting, counts, capturedVotes,
                 selectedVote, reason, loadPhase, requests, timers,
                 backendVotes>>

\* The fetch answers non-OK or rejects: the catch stores null, then finally.
WeatherFail ==
  /\ \E key \in loadingWeather :
       /\ weatherData' = Put(weatherData, key, NULL)
       /\ loadingWeather' = loadingWeather \ {key}
  /\ UNCHANGED <<pageVars, serverVars, expandedWeather, weatherRequests, alerted,
                 token, viewState, error, context, items, votes,
                 currentJobIndex, submitting, counts, capturedVotes,
                 selectedVote, reason, loadPhase, requests, timers,
                 backendVotes>>

FlowNext ==
  \/ LoadStart
  \/ LoadSucceed
  \/ LoadFail
  \/ OnBegin
  \/ VotingWithoutItem
  \/ ArrowPrev
  \/ ArrowNext
  \/ NavigatePrev
  \/ NavigateNext
  \/ SelectVote
  \/ TypeReason
  \/ HandleSubmit
  \/ SubmitSucceed
  \/ SubmitFail
  \/ DelayFire
  \/ OnGoBack

(***************************************************************************)
(* Part II.  app/vote/[campaignId]/page.tsx: the campaign voting page.     *)
(*                                                                         *)
(* The dependency array of goNext reads allComplete above its `const`      *)
(* declaration; the model follows the builds in which the page renders.    *)
(***************************************************************************)
MaxAssignments == 2        \* longest assignment list the backend returns
MaxEditsWhileSaving == 1   \* edits the voter makes while one save is running

delayOptions == {30, 60, 90, 120}
Votes == {"go", "delay", "hold"}

\* What the voter does with the delay controls: the preset buttons pressed
\* and the texts left in the custom input (emptied, or a negative number).
PressedPresets == {60}
CustomTexts == {"", "-5"}

\* Number(event.target.value) on those texts.
NumberOf(text) == IF text = "" THEN 0 ELSE 0 - 5

\* !!n for number | null
TruthyNum(n) == n # NullNum /\ n # 0

AssignmentRow(i, pattern) ==
  [assignmentId |-> "a" \o ToString(i),
   status |-> "pending",
   vote |-> IF pattern = "legacyDelay" THEN "delay" ELSE NULL,
   delay_minutes |-> NullNum,
   comment |-> NULL,
   voted_at |-> NULL,
   internal_job_id |-> ToString(100 + i)]

\* Lists GET /api/vote/assignments can return: rows not voted yet, or rows
\* carrying a delay vote without minutes.
AssignmentLists ==
  {[i \in 1..n |-> AssignmentRow(i, pattern)] :
     n \in 0..MaxAssignments, pattern \in {"pending", "legacyDelay"}}

People == {[personId |-> "p1", displayName |-> "Jane", role |-> "estimator"]}
PageLoadErrors == {"Invalid voting link.", "Failed to load assignments."}
SaveErrors == {"Failed to submit vote."}

\* How the fetch of finishVoting can end: an OK response, a non-OK response
\* (the response is not looked at), or a rejected fetch (caught).
CompleteOutcomes == {"ok", "status 500", "network error"}

PageInit ==
  /\ pageToken \in {"", "t"}
  /\ pageLoading = TRUE
  /\ pageError = NULL
  /\ person = <<>>
  /\ assignments = <<>>
  /\ currentIndex = 0
  /\ saving = FALSE
  /\ saveError = NULL
  /\ pagePc = "init"
  /\ saPc = "idle"
  /\ saSnapshot = <<>>
  /\ saPos = 0
  /\ saUpdates = EmptyMap
  /\ saRequest = <<>>
  /\ editsWhileSaving = 0
  /\ weatherCache = EmptyMap
  /\ weatherErrors = EmptyMap
  /\ weatherLoading = {}
  /\ weatherInFlight = {}
  /\ weatherDeps = <<>>
  /\ staleLoads = <<>>
  /\ reloads = 0
  /\ hourly = <<>>
  /\ peak = <<>>
  /\ completeOutcome = NULL

\* const current = assignments[currentIndex]
hasCurrent == currentIndex >= 0 /\ currentIndex < Len(assignments)
current == assignments[currentIndex + 1]

canAdvance ==
  /\ hasCurrent
  /\ Truthy(current.vote)
  /\ (current.vote # "delay" \/ TruthyNum(current.delay_minutes))

\* A readiness check that only asks for a vote.
allCompleteVoteOnly ==
  \A i \in 1..Len(assignments) : Truthy(assignments[i].vote)

allComplete ==
  \A i \in 1..Len(assignments) :
    /\ Truthy(assignments[i].vote)
    /\ (assignments[i].vote # "delay" \/ TruthyNum(assignments[i].delay_minutes))

\* The render reaches the voting form: not loading, no error, a non-empty
\* list and currentIndex inside it.
votingFormShown ==
  /\ ~pageLoading
  /\ pageError = NULL
  /\ Len(assignments) > 0
  /\ currentIndex < Len(assignments)

(***************************************************************************)
(* The load effect.                                                        *)
(***************************************************************************)
PageLoadStart ==
  /\ pagePc = "init"
  /\ IF ~Truthy(pageToken)
     THEN /\ pageError' = "Missing campaign or token."
          /\ pageLoading' = FALSE
          /\ pagePc' = "done"
     ELSE /\ pageError' = NULL
          /\ pageLoading' = TRUE
          /\ pagePc' = "resolving"
  /\ UNCHANGED <<flowVars, serverVars, pageWeatherVars, completeOutcome, pageToken, person, assignments, currentIndex,
                 saving, saveError, saPc, saSnapshot, saPos, saUpdates,
                 saRequest, editsWhileSaving>>

ResolveOk ==
  /\ pagePc = "resolving"
  /\ \E resolveData \in People : person' = <<resolveData>>
  /\ pagePc' = "listing"
  /\ UNCHANGED <<flowVars, serverVars, pageWeatherVars, completeOutcome, pageToken, pageLoading, pageError, assignments,
                 currentIndex, saving, saveError, saPc, saSnapshot, saPos,
                 saUpdates, saRequest, editsWhileSaving>>

AssignmentsOk ==
  /\ pagePc = "listing"
  /\ \E list \in AssignmentLists : assignments' = list
  /\ pageLoading' = FALSE
  /\ pagePc' = "done"
  /\ UNCHANGED <<flowVars, serverVars, pageWeatherVars, completeOutcome, pageToken, pageError, person, currentIndex, saving,
                 saveError, saPc, saSnapshot, saPos, saUpdates, saRequest,
                 editsWhileSaving>>

\* The catch of load(): a failed resolve or a failed assignments request.
PageLoadFail ==
  /\ pagePc \in {"resolving", "listing"}
  /\ \E message \in PageLoadErrors : pageError' = message
  /\ pageLoading' = FALSE
  /\ pagePc' = "done"
  /\ UNCHANGED <<flowVars, serverVars, pageWeatherVars, completeOutcome, pageToken, person, assignments, currentIndex,
                 saving, saveError, saPc, saSnapshot, saPos, saUpdates,
                 saRequest, editsWhileSaving>>

(***************************************************************************)
(* Editing the current assignment.  The controls stay enabled while a save *)
(* is running.                                                             *)
(***************************************************************************)
\* updateAssignment(assignmentId, partial) with partial = {vote?, delay_minutes?}
updateAssignment(list, assignmentId, newVote, newDelay) ==
  [i \in 1..Len(list) |->
     IF list[i].assignmentId = assignmentId
     THEN [list[i] EXCEPT !.vote = newVote, !.delay_minutes = newDelay]
     ELSE list[i]]

editAllowed == votingFormShown /\ (saving => editsWhileSaving < MaxEditsWhileSaving)

edit(newVote, newDelay) ==
  /\ assignments' = updateAssignment(assignments, current.assignmentId, newVote, newDelay)
  /\ editsWhileSaving' = IF saving THEN editsWhileSaving + 1 ELSE editsWhileSaving
  /\ UNCHANGED <<flowVars, serverVars, pageWeatherVars, completeOutcome, pageToken, pageLoading, pageError, person,
                 currentIndex, saving, saveError, pagePc, saPc, saSnapshot,
                 saPos, saUpdates, saRequest>>

\* onClick of a vote button.
VoteButton ==
  /\ editAllowed
  /\ \E vote \in Votes :
       LET defaultDelay == IF vote = "delay"
                           THEN CoalesceNum(current.delay_minutes, 60)
                           ELSE NullNum
       IN edit(vote, defaultDelay)

\* onClick of a preset delay button (the delay panel shows for a delay vote).
DelayPreset ==
  /\ editAllowed
  /\ current.vote = "delay"
  /\ \E minutes \in PressedPresets \cap delayOptions : edit(current.vote, minutes)

\* onChange of the custom delay input; Number() of a number input's text is
\* never NaN.
DelayCustom ==
  /\ editAllowed
  /\ current.vote = "delay"
  /\ \E text \in CustomTexts : edit(current.vote, NumberOf(text))

\* onChange of the comment textarea: the text as typed, the empty text once
\* everything typed is deleted again.
CommentTexts == {"", " ok "}

EditComment ==
  /\ editAllowed
  /\ \E text \in CommentTexts :
       assignments' = [assignments EXCEPT ![currentIndex + 1].comment = text]
  /\ editsWhileSaving' = IF saving THEN editsWhileSaving + 1 ELSE editsWhileSaving
  /\ UNCHANGED <<flowVars, serverVars, pageWeatherVars, completeOutcome, pageToken,
                 pageLoading, pageError, person, currentIndex, saving, saveError,
                 pagePc, saPc, saSnapshot, saPos, saUpdates, saRequest>>

(***************************************************************************)
(* Navigation and submitAllVotes.                                          *)
(***************************************************************************)
\* goPrev, from the Back button or an arrow key (the key listener is
\* registered on every screen).
GoPrev ==
  /\ currentIndex' = MaxOf(0, currentIndex - 1)
  /\ UNCHANGED <<flowVars, serverVars, pageWeatherVars, completeOutcome, pageToken, pageLoading, pageError, person,
                 assignments, saving, saveError, pagePc, saPc, saSnapshot,
                 saPos, saUpdates, saRequest, editsWhileSaving>>

\* Body of POST /api/vote/submit built by submitVote.
submitBody(assignment) ==
  [assignmentId |-> assignment.assignmentId,
   vote |-> assignment.vote,
   delay_minutes |-> assignment.delay_minutes,
   comment |-> assignment.comment]

\* The two checks at the head of submitAllVotes' loop body: the message
\* thrown, or NULL.
preCheck(assignment) ==
  IF ~Truthy(assignment.vote)
  THEN "Please select a vote for every job."
  ELSE IF assignment.vote = "delay" /\ ~TruthyNum(assignment.delay_minutes)
       THEN "Please select delay minutes for every delay vote."
       ELSE NULL

\* String.prototype.trim on the texts a request can carry, and x?.trim().
trimmed(text) ==
  IF text = " " THEN "" ELSE IF text = " ok " THEN "ok" ELSE text
trimmedOpt(text) == IF text = NULL THEN NULL ELSE trimmed(text)

\* POST /api/vote/submit: validation, and the row it stores and returns.
\* The same validation with the third test left out.
submitAcceptedAnyDelay(body) ==
  /\ Truthy(trimmedOpt(body.assignmentId))
  /\ Truthy(body.vote)
  /\ body.vote \in {"go", "delay", "hold"}

submitAccepted(body) ==
  /\ Truthy(trimmedOpt(body.assignmentId))
  /\ Truthy(body.vote)
  /\ body.vote \in {"go", "delay", "hold"}
  /\ ~(body.vote # "delay" /\ body.delay_minutes # NullNum)

\* The error of the 400 answer, NULL for an accepted body.
submitRejection(body) ==
  IF ~Truthy(trimmedOpt(body.assignmentId)) \/ ~Truthy(body.vote)
  THEN "assignmentId and vote are required."
  ELSE IF body.vote \notin {"go", "delay", "hold"}
       THEN "Invalid vote value."
       ELSE IF body.vote # "delay" /\ body.delay_minutes # NullNum
            THEN "delay_minutes is only allowed for delay votes."
            ELSE NULL

\* A stored row that takes delay_minutes as sent.
submitStoredRowAsSent(body) ==
  [vote |-> body.vote,
   delay_minutes |-> IF body.vote = "delay" THEN body.delay_minutes ELSE NullNum,
   comment |-> IF Truthy(trimmedOpt(body.comment))
               THEN trimmedOpt(body.comment) ELSE NULL,
   status |-> "voted",
   voted_at |-> "now"]

submitStoredRow(body) ==
  [vote |-> body.vote,
   delay_minutes |-> IF body.vote = "delay"
                     THEN IF TruthyNum(body.delay_minutes) /\ body.delay_minutes > 0
                          THEN body.delay_minutes ELSE 60
                     ELSE NullNum,
   comment |-> IF Truthy(trimmedOpt(body.comment))
               THEN trimmedOpt(body.comment) ELSE NULL,
   status |-> "voted",
   voted_at |-> "now"]

\* updates.set(assignment.assignmentId, {...assignment, ...})
reconciled(assignment, updated) ==
  [assignment EXCEPT
     !.vote = Coalesce(updated.vote, assignment.vote),
     !.delay_minutes = CoalesceNum(updated.delay_minutes, assignment.delay_minutes),
     !.comment = Coalesce(updated.comment, assignment.comment),
     !.status = Coalesce(updated.status, assignment.status),
     !.voted_at = Coalesce(updated.voted_at, assignment.voted_at)]

\* setAssignments((prev) => prev.map((a) => updates.get(a.assignmentId) ?? a))
applyUpdates(list, updates) ==
  [i \in 1..Len(list) |->
     IF list[i].assignmentId \in DOMAIN updates
     THEN updates[list[i].assignmentId] ELSE list[i]]

\* submitAllVotes from the head of loop iteration `pos` to its next await,
\* or to its end through catch/finally.
runSubmitAll(snapshot, pos, updates, errorSoFar) ==
  IF pos > Len(snapshot)
  THEN \* loop done: setAssignments, then await finishVoting()
       /\ assignments' = applyUpdates(assignments, updates)
       /\ saving' = TRUE
       /\ saveError' = errorSoFar
       /\ saPc' = "finishing"
       /\ saRequest' = <<>>
       /\ saPos' = pos
       /\ saUpdates' = updates
       /\ saSnapshot' = snapshot
  ELSE IF preCheck(snapshot[pos]) # NULL
       THEN \* throw -> catch -> finally
            /\ saveError' = preCheck(snapshot[pos])
            /\ saving' = FALSE
            /\ saPc' = "idle"
            /\ saRequest' = <<>>
            /\ saPos' = 0
            /\ saUpdates' = EmptyMap
            /\ saSnapshot' = <<>>
            /\ UNCHANGED assignments
       ELSE \* await submitVote(assignment)
            /\ saving' = TRUE
            /\ saveError' = errorSoFar
            /\ saPc' = "submitting"
            /\ saRequest' = <<submitBody(snapshot[pos])>>
            /\ saPos' = pos
            /\ saUpdates' = updates
            /\ saSnapshot' = snapshot
            /\ UNCHANGED assignments

\* A goNext without the branch for the last assignment.
GoNextPastLast ==
  /\ ~saving
  /\ canAdvance
  /\ currentIndex' = MinOf(Len(assignments), currentIndex + 1)
  /\ UNCHANGED <<assignments, saving, saveError, saPc, saSnapshot,
                 saPos, saUpdates, saRequest, editsWhileSaving>>
  /\ UNCHANGED <<flowVars, serverVars, pageWeatherVars, completeOutcome, pageToken, pageLoading, pageError, person, pagePc>>

\* goNext, from the Next/Finish button or an arrow key.
GoNext ==
  /\ ~saving
  /\ canAdvance
  /\ IF currentIndex + 1 >= Len(assignments)
     THEN /\ allComplete
          /\ runSubmitAll(assignments, 1, EmptyMap, NULL)
          /\ editsWhileSaving' = 0
          /\ UNCHANGED currentIndex
     ELSE /\ currentIndex' = MinOf(Len(assignments), currentIndex + 1)
          /\ UNCHANGED <<assignments, saving, saveError, saPc, saSnapshot,
                         saPos, saUpdates, saRequest, editsWhileSaving>>
  /\ UNCHANGED <<flowVars, serverVars, pageWeatherVars, completeOutcome, pageToken, pageLoading, pageError, person, pagePc>>

\* An OK response of /api/vote/submit reaches the loop of submitAllVotes.
SubmitVoteOk ==
  /\ saPc = "submitting"
  /\ submitAccepted(saRequest[1])
  /\ runSubmitAll(saSnapshot, saPos + 1,
                  Put(saUpdates, saSnapshot[saPos].assignmentId,
                      reconciled(saSnapshot[saPos], submitStoredRow(saRequest[1]))),
                  saveError)
  /\ UNCHANGED <<flowVars, serverVars, pageWeatherVars, completeOutcome, pageToken, pageLoading, pageError, person,
                 currentIndex, pagePc, editsWhileSaving>>

\* A non-OK response or a transport error: submitVote throws.
SubmitVoteFail ==
  /\ saPc = "submitting"
  /\ \E message \in SaveErrors : saveError' = message
  /\ saving' = FALSE
  /\ saPc' = "idle"
  /\ saRequest' = <<>>
  /\ saPos' = 0
  /\ saUpdates' = EmptyMap
  /\ saSnapshot' = <<>>
  /\ UNCHANGED <<flowVars, serverVars, pageWeatherVars, completeOutcome, pageToken, pageLoading, pageError, person,
                 assignments, currentIndex, pagePc, editsWhileSaving>>

\* A completion step that reports a completion call that did not go well.
FinishVotingReportingFailure ==
  /\ saPc = "finishing"
  /\ saving' = FALSE
  /\ saPc' = "idle"
  /\ saPos' = 0
  /\ saUpdates' = EmptyMap
  /\ saSnapshot' = <<>>
  /\ \E outcome \in CompleteOutcomes :
       /\ completeOutcome' = outcome
       /\ IF outcome = "ok"
          THEN currentIndex' = Len(saSnapshot) /\ UNCHANGED saveError
          ELSE saveError' = "Failed to submit votes." /\ UNCHANGED currentIndex
  /\ UNCHANGED <<flowVars, serverVars, pageWeatherVars, pageToken, pageLoading,
                 pageError, person, assignments, pagePc, saRequest,
                 editsWhileSaving>>

\* finishVoting() settles, whatever /api/vote/complete answered:
\* setCurrentIndex(assignments.length), then finally setSaving(false).
FinishVotingDone ==
  /\ saPc = "finishing"
  /\ currentIndex' = Len(saSnapshot)
  /\ saving' = FALSE
  /\ saPc' = "idle"
  /\ saPos' = 0
  /\ saUpdates' = EmptyMap
  /\ saSnapshot' = <<>>
  /\ \E outcome \in CompleteOutcomes : completeOutcome' = outcome
  /\ UNCHANGED <<flowVars, serverVars, pageWeatherVars, pageToken, pageLoading, pageError, person,
                 assignments, saveError, pagePc, saRequest, editsWhileSaving>>

(***************************************************************************)
(* The weather effect of the page.                                         *)
(***************************************************************************)
\* current?.job.internal_job_id
currentJobId == IF hasCurrent THEN current.internal_job_id ELSE NULL

\* A cache test by truthiness: a cached null counts as no entry.
weatherCachedTruthy(cache, key) == key \in DOMAIN cache /\ cache[key] # NULL

\* weatherCache[cacheKey] !== undefined
weatherCached(cache, key) == key \in DOMAIN cache

\* An effect without the in-flight test.
inFlightGuardOff(loading, key) == FALSE

\* weatherLoadingRef.current[cacheKey]
inFlightGuard(loading, key) == key \in loading

\* A continuation that does not look at `cancelled`.
ignoringCancelled(cancelled, newValue, oldValue) == newValue

\* if (!cancelled) set...(newValue), and if (cancelled) return before a set.
unlessCancelled(cancelled, newValue, oldValue) ==
  IF cancelled THEN oldValue ELSE newValue

\* The effect runs after a render in which one of its dependencies changed:
\* first the cleanup of the run before (cancelled = true), then the body.
WeatherEffect ==
  /\ weatherDeps # <<currentJobId, weatherCache, weatherErrors>>
  /\ weatherDeps' = <<currentJobId, weatherCache, weatherErrors>>
  /\ LET cleaned == {[request EXCEPT !.cancelled = TRUE] : request \in weatherInFlight}
         cacheKey == currentJobId
     IN IF \/ ~Truthy(cacheKey)
           \/ weatherCached(weatherCache, cacheKey)
           \/ cacheKey \in DOMAIN weatherErrors
           \/ inFlightGuard(weatherLoading, cacheKey)
        THEN /\ weatherInFlight' = cleaned
             /\ UNCHANGED weatherLoading
        ELSE /\ weatherLoading' = weatherLoading \cup {cacheKey}
             /\ weatherInFlight' =
                  cleaned \cup {[key |-> cacheKey, cancelled |-> FALSE]}
  /\ UNCHANGED <<flowVars, serverVars, weatherCache, weatherErrors, staleLoads,
                 reloads, hourly, peak, completeOutcome, pageToken, pageLoading, pageError, person,
                 assignments, currentIndex, saving, saveError, pagePc, saPc,
                 saSnapshot, saPos, saUpdates, saRequest, editsWhileSaving>>

(***************************************************************************)
(* computePeak, and the render that calls it.                              *)
(***************************************************************************)
MaxHours == 3   \* longest hourly list of a weather response

\* Hourly entries of a weather response: rain in hundredths of an inch and
\* the chance of rain in percent; the time of an entry is its hour.
RainInches == {0, 5, 20}
RainChances == {10, 25, 40}
HourOf(i) == "T" \o ToString(i) \o ":00"
HourlyLists ==
  UNION {{[i \in 1..n |-> [time |-> HourOf(i),
                           rainChance |-> reading[i][1],
                           rainInches |-> reading[i][2]]] :
            reading \in [1..n -> RainChances \X RainInches]} :
         n \in 0..MaxHours}

\* The callback of the two reduce calls decides by entry[field] > max[field];
\* `orEqual` describes a callback that also lets an equal entry win.
replaces(entry, max, field, orEqual) ==
  IF orEqual THEN entry[field] >= max[field] ELSE entry[field] > max[field]

\* Array.prototype.reduce without an initial value on a non-empty list: the
\* accumulator starts as the first entry (i starts at 2); the callback returns
\* the entry when it replaces the accumulator, the accumulator otherwise.
RECURSIVE reduceFrom(_, _, _, _, _)
reduceFrom(list, i, max, field, orEqual) ==
  IF i > Len(list)
  THEN max
  ELSE reduceFrom(list, i + 1,
                  IF replaces(list[i], max, field, orEqual) THEN list[i] ELSE max,
                  field, orEqual)

peakOf(list, orEqual) ==
  IF Len(list) = 0
  THEN <<>>
  ELSE LET peakInchesEntry == reduceFrom(list, 2, list[1], "rainInches", orEqual)
           useInches == peakInchesEntry.rainInches > 0
           peakEntry == IF useInches
                        THEN peakInchesEntry
                        ELSE reduceFrom(list, 2, list[1], "rainChance", orEqual)
       IN <<[time |-> peakEntry.time,
             rainChance |-> peakEntry.rainChance,
             rainInches |-> peakEntry.rainInches]>>

\* computePeak in which a later entry with an equal value replaces the maximum.
computePeakLastWins(list) == peakOf(list, TRUE)

computePeak(list) == peakOf(list, FALSE)

\* A render with a cached weather response for the current job:
\* const peak = currentWeather?.hourly ? computePeak(currentWeather.hourly) : null
\* A cached response is never replaced, so the renders of a run see one list.
RenderPeak ==
  /\ hourly = <<>>
  /\ \E list \in HourlyLists :
       /\ hourly' = list
       /\ peak' = computePeak(list)
  /\ UNCHANGED <<flowVars, serverVars, weatherCache, weatherErrors,
                 weatherLoading, weatherInFlight, weatherDeps, staleLoads,
                 reloads, completeOutcome, pageToken, pageLoading, pageError,
                 person, assignments, currentIndex, saving, saveError, pagePc,
                 saPc, saSnapshot, saPos, saUpdates, saRequest, editsWhileSaving>>

\* How /api/vote/job-weather can answer loadWeather.
WeatherOutcomes == {"ok", "404", "failed"}

\* loadWeather from the answer of its fetch to the end of its finally.
WeatherAnswered ==
  /\ \E request \in weatherInFlight, outcome \in WeatherOutcomes :
       /\ weatherInFlight' = weatherInFlight \ {request}
       /\ weatherLoading' = weatherLoading \ {request.key}
       /\ weatherCache' =
            IF outcome = "failed"
            THEN weatherCache
            ELSE unlessCancelled(request.cancelled,
                                 Put(weatherCache, request.key,
                                     IF outcome = "ok" THEN "payload" ELSE NULL),
                                 weatherCache)
       /\ weatherErrors' =
            IF outcome = "failed"
            THEN unlessCancelled(request.cancelled,
                                 Put(weatherErrors, request.key,
                                     "Weather lookup failed."),
                                 weatherErrors)
            ELSE weatherErrors
  /\ UNCHANGED <<flowVars, serverVars, weatherDeps, staleLoads, reloads, hourly, peak,
                 completeOutcome, pageToken,
                 pageLoading, pageError, person, assignments, currentIndex,
                 saving, saveError, pagePc, saPc, saSnapshot, saPos, saUpdates,
                 saRequest, editsWhileSaving>>

(***************************************************************************)
(* The load effect runs again: its dependency `token` changed.             *)
(***************************************************************************)
MaxReloads == 2   \* changes of the token in one run

PageTokens == {"", "t", "u"}

\* The cleanup of the run before (its load, if in flight, goes on with
\* cancelled = true), then load() of the new run up to its first await.
TokenChanges ==
  /\ reloads < MaxReloads
  /\ pagePc # "init"
  /\ reloads' = reloads + 1
  /\ staleLoads' = IF pagePc \in {"resolving", "listing"}
                   THEN Append(staleLoads, pagePc) ELSE staleLoads
  /\ \E newToken \in PageTokens \ {pageToken} :
       /\ pageToken' = newToken
       /\ IF ~Truthy(newToken)
          THEN /\ pageError' = "Missing campaign or token."
               /\ pageLoading' = FALSE
               /\ pagePc' = "done"
          ELSE /\ pageError' = NULL
               /\ pageLoading' = TRUE
               /\ pagePc' = "resolving"
  /\ UNCHANGED <<flowVars, serverVars, weatherCache, weatherErrors,
                 weatherLoading, weatherInFlight, weatherDeps, hourly, peak, completeOutcome,
                 person, assignments, currentIndex, saving, saveError, saPc,
                 saSnapshot, saPos, saUpdates, saRequest, editsWhileSaving>>

\* A torn-down load() goes on from its await: every path tests `cancelled`
\* before it sets state, and returns.
StaleLoadAnswered ==
  /\ \E i \in 1..Len(staleLoads), outcome \in {"ok", "failed"} :
       /\ staleLoads[i] # "returned"
       /\ staleLoads' = [staleLoads EXCEPT ![i] = "returned"]
       /\ IF outcome = "failed"
          THEN /\ \E message \in PageLoadErrors :
                    pageError' = unlessCancelled(TRUE, message, pageError)
               /\ pageLoading' = unlessCancelled(TRUE, FALSE, pageLoading)
               /\ UNCHANGED <<person, assignments>>
          ELSE IF staleLoads[i] = "resolving"
               THEN /\ \E resolveData \in People :
                         person' = unlessCancelled(TRUE, <<resolveData>>, person)
                    /\ UNCHANGED <<assignments, pageError, pageLoading>>
               ELSE /\ \E list \in AssignmentLists :
                         assignments' = unlessCancelled(TRUE, list, assignments)
                    /\ pageLoading' = unlessCancelled(TRUE, FALSE, pageLoading)
                    /\ UNCHANGED <<person, pageError>>
  /\ UNCHANGED <<flowVars, serverVars, weatherCache, weatherErrors,
                 weatherLoading, weatherInFlight, weatherDeps, reloads, hourly, peak,
                 completeOutcome, pageToken, currentIndex, saving, saveError,
                 pagePc, saPc, saSnapshot, saPos, saUpdates, saRequest,
                 editsWhileSaving>>

PageNext ==
  \/ PageLoadStart
  \/ ResolveOk
  \/ AssignmentsOk
  \/ PageLoadFail
  \/ VoteButton
  \/ DelayPreset
  \/ DelayCustom
  \/ GoPrev
  \/ GoNext
  \/ SubmitVoteOk
  \/ SubmitVoteFail
  \/ FinishVotingDone

(***************************************************************************)
(* Part III.  Route handlers.  A handler runs from the request to its      *)
(* answer in one step; the backend calls it makes are listed in the        *)
(* answer, with the ones that failed.                                      *)
(***************************************************************************)
Answer(route, request, status, body, calls, failed) ==
  << [route |-> route, request |-> request, status |-> status, body |-> body,
      calls |-> calls, failed |-> failed] >>

(***************************************************************************)
(* POST /api/vote/submit, in its two versions (unnamed/part_001 and        *)
(* unnamed/part_002).                                                      *)
(***************************************************************************)
DbRowIds == {"a1"}

\* Bodies a client can send: fields missing, blank or out of range included.
SubmitBodies ==
  [assignmentId : {NULL, " ", "zz"} \cup DbRowIds,
   vote : {NULL, "maybe"} \cup Votes,
   delay_minutes : {NullNum, 0, 30},
   comment : {NULL, " ok "}]

DbRow(id) ==
  [id |-> id, status |-> "pending", vote |-> NULL, delay_minutes |-> NullNum,
   comment |-> NULL, voted_at |-> NULL, written |-> FALSE]

DbPeople == {[id |-> "p1", invite_status |-> st, last_activity_at |-> 0,
              display_name |-> "Pat", role |-> NULL] :
               st \in {"sent", "started"}}

hasRow(rows, id) == \E i \in 1..Len(rows) : rows[i].id = id

rowOf(rows, id) == rows[CHOOSE i \in 1..Len(rows) : rows[i].id = id]

\* An update that writes the vote fields and leaves the status for later.
updateRowVoteOnly(rows, id, stored) ==
  [i \in 1..Len(rows) |->
     IF rows[i].id = id
     THEN [rows[i] EXCEPT !.vote = stored.vote,
                          !.delay_minutes = stored.delay_minutes,
                          !.comment = stored.comment,
                          !.written = TRUE]
     ELSE rows[i]]

\* .update({vote, delay_minutes, comment, status, voted_at, updated_at})
\*   .eq("id", assignmentId)
updateRow(rows, id, stored) ==
  [i \in 1..Len(rows) |->
     IF rows[i].id = id
     THEN [rows[i] EXCEPT !.vote = stored.vote,
                          !.delay_minutes = stored.delay_minutes,
                          !.comment = stored.comment,
                          !.status = stored.status,
                          !.voted_at = stored.voted_at,
                          !.written = TRUE]
     ELSE rows[i]]

\* .select(...).single(): the row as the answer carries it.
selectedRow(row) ==
  [id |-> row.id, vote |-> row.vote, delay_minutes |-> row.delay_minutes,
   comment |-> row.comment, status |-> row.status, voted_at |-> row.voted_at]

\* .update({last_activity_at, invite_status}).eq("id", personId)
markPerson(people, personId, inviteStatus) ==
  [i \in 1..Len(people) |->
     IF people[i].id = personId
     THEN [people[i] EXCEPT !.invite_status = inviteStatus,
                            !.last_activity_at = clock]
     ELSE people[i]]

\* The handler of unnamed/part_001 on one body.  failing: the backend calls
\* that fail if they are made.
submitPost(body, failing) ==
  LET id == trimmedOpt(body.assignmentId)
  IN IF ~submitAccepted(body)
     THEN /\ apiResponse' = Answer("submit", body, 400,
                                   [error |-> submitRejection(body)], <<>>, {})
          /\ UNCHANGED <<dbRows, dbPerson>>
     ELSE IF "assignments.update" \in failing \/ ~hasRow(dbRows, id)
          THEN /\ apiResponse' = Answer("submit", body, 500,
                                        [error |-> "update failed"],
                                        <<"assignments.update">>,
                                        {"assignments.update"})
               /\ UNCHANGED <<dbRows, dbPerson>>
          ELSE /\ dbRows' = updateRow(dbRows, id, submitStoredRow(body))
               /\ dbPerson' = IF "people.update" \in failing
                              THEN dbPerson
                              ELSE markPerson(dbPerson, "p1", "started")
               /\ apiResponse' =
                    Answer("submit", body, 200,
                           [assignment |-> selectedRow(rowOf(dbRows', id))],
                           <<"assignments.update", "people.update">>,
                           failing \cap {"people.update"})

SubmitPost ==
  /\ \E body \in SubmitBodies,
        failing \in SUBSET {"assignments.update", "people.update"} :
       submitPost(body, failing)
  /\ UNCHANGED <<flowVars, pageVars, dbTokens, dbWeather, clock>>

\* unnamed/part_002: validation and stored row.
submitAcceptedV2(body) ==
  /\ Truthy(trimmedOpt(body.assignmentId))
  /\ Truthy(body.vote)
  /\ ~(body.vote = "delay"
         /\ (body.delay_minutes = NullNum \/ body.delay_minutes <= 0))

submitRejectionV2(body) ==
  IF ~Truthy(trimmedOpt(body.assignmentId)) \/ ~Truthy(body.vote)
  THEN "assignmentId and vote are required."
  ELSE IF body.vote = "delay"
            /\ (body.delay_minutes = NullNum \/ body.delay_minutes <= 0)
       THEN "delay_minutes is required for delay votes."
       ELSE NULL

submitStoredRowV2(body) ==
  [vote |-> body.vote,
   delay_minutes |-> IF body.vote = "delay" THEN body.delay_minutes ELSE NullNum,
   comment |-> IF Truthy(trimmedOpt(body.comment))
               THEN trimmedOpt(body.comment) ELSE NULL,
   status |-> "voted",
   voted_at |-> "now"]

submitPostV2(body, failing) ==
  LET id == trimmedOpt(body.assignmentId)
  IN IF ~submitAcceptedV2(body)
     THEN /\ apiResponse' = Answer("submit v2", body, 400,
                                   [error |-> submitRejectionV2(body)], <<>>, {})
          /\ UNCHANGED dbRows
     ELSE IF "assignments.update" \in failing \/ ~hasRow(dbRows, id)
          THEN /\ apiResponse' = Answer("submit v2", body, 500,
                                        [error |-> "update failed"],
                                        <<"assignments.update">>,
                                        {"assignments.update"})
               /\ UNCHANGED dbRows
          ELSE /\ dbRows' = updateRow(dbRows, id, submitStoredRowV2(body))
               /\ apiResponse' =
                    Answer("submit v2", body, 200,
                           [assignment |-> selectedRow(rowOf(dbRows', id))],
                           <<"assignments.update">>, {})

SubmitPostV2 ==
  /\ \E body \in SubmitBodies, failing \in SUBSET {"assignments.update"} :
       submitPostV2(body, failing)
  /\ UNCHANGED <<flowVars, pageVars, dbPerson, dbTokens, dbWeather, clock>>

(***************************************************************************)
(* POST /api/weather-vote/submit                                           *)
(***************************************************************************)
WeatherVoteBodies ==
  [token : {NULL, " ", "tok"},
   internalJobId : {NullNum, 1},
   voteValue : {NULL, " ", "Cancel"},
   voteReason : {NULL, "too risky"}]

weatherVoteAccepted(body) ==
  /\ Truthy(trimmedOpt(body.token))
  /\ Truthy(trimmedOpt(body.voteValue))
  /\ body.internalJobId # NullNum

weatherVoteSubmitPost(body, failing) ==
  IF ~weatherVoteAccepted(body)
  THEN apiResponse' =
         Answer("weather-vote submit", body, 400,
                [message |-> "token, internalJobId, and voteValue are required."],
                <<>>, {})
  ELSE IF "rpc_weather_vote_submit" \in failing
       THEN apiResponse' =
              Answer("weather-vote submit", body, 400,
                     [message |-> "rpc failed"],
                     <<"rpc_weather_vote_submit">>, {"rpc_weather_vote_submit"})
       ELSE apiResponse' =
              Answer("weather-vote submit", body, 200,
                     [result |-> [vote_value |-> trimmedOpt(body.voteValue),
                                  vote_reason |-> body.voteReason]],
                     <<"rpc_weather_vote_submit">>, {})

WeatherVoteSubmitPost ==
  /\ \E body \in WeatherVoteBodies, failing \in SUBSET {"rpc_weather_vote_submit"} :
       weatherVoteSubmitPost(body, failing)
  /\ UNCHANGED <<flowVars, pageVars, dbRows, dbPerson, dbTokens, dbWeather, clock>>

(***************************************************************************)
(* POST /api/vote/resolve                                                  *)
(***************************************************************************)
MaxClock == 2

ResolveBodies ==
  [campaignId : {NULL, " ", "c1", "c2"}, token : {NULL, " ", "t1", "t2"}]

\* createHash("sha256").update(token).digest("hex")
sha256(text) == "sha256:" \o text

\* The records of weather_vote_tokens: token_hash identifies a record.
DbTokenRecords ==
  [token_hash : {sha256("t1")}, person_id : {"p1"}, campaign_id : {"c1", "c2"},
   revoked_at : {NullNum, 0}, expires_at : 1..MaxClock]

\* The same query without .is("revoked_at", null).
validTokensIgnoringRevoked(tokenHash) ==
  {record \in dbTokens :
     record.token_hash = tokenHash /\ record.expires_at > clock}

\* .eq("token_hash", tokenHash).is("revoked_at", null).gt("expires_at", now)
validTokens(tokenHash) ==
  {record \in dbTokens :
     /\ record.token_hash = tokenHash
     /\ record.revoked_at = NullNum
     /\ record.expires_at > clock}

personOf(people, personId) ==
  people[CHOOSE i \in 1..Len(people) : people[i].id = personId]

\* A handler that marks the person as soon as the token is found.
resolvePostMarkingFirst(body, failing) ==
  LET campaignId == trimmedOpt(body.campaignId)
      tokenText == trimmedOpt(body.token)
      found == validTokens(sha256(tokenText))
  IN IF ~Truthy(campaignId) \/ ~Truthy(tokenText)
     THEN /\ apiResponse' = Answer("resolve", body, 400,
                                   [error |-> "campaignId and token are required."],
                                   <<>>, {})
          /\ UNCHANGED dbPerson
     ELSE IF "tokens.select" \in failing \/ Cardinality(found) > 1
          THEN /\ apiResponse' = Answer("resolve", body, 500,
                                        [error |-> "select failed"],
                                        <<"tokens.select">>, {"tokens.select"})
               /\ UNCHANGED dbPerson
          ELSE IF found = {}
               THEN /\ apiResponse' = Answer("resolve", body, 401,
                                             [error |-> "Token is invalid or expired."],
                                             <<"tokens.select">>, {})
                    /\ UNCHANGED dbPerson
               ELSE LET data == CHOOSE record \in found : TRUE
                    IN /\ dbPerson' = markPerson(dbPerson, data.person_id, "viewed")
                       /\ IF data.campaign_id # campaignId
                          THEN apiResponse' =
                                 Answer("resolve", body, 403,
                                        [error |-> "Token does not match campaign."],
                                        <<"tokens.select", "people.update">>, {})
                          ELSE apiResponse' =
                                 Answer("resolve", body, 200,
                                        [personId |-> data.person_id],
                                        <<"tokens.select", "people.update">>, {})

resolvePost(body, failing) ==
  LET campaignId == trimmedOpt(body.campaignId)
      tokenText == trimmedOpt(body.token)
      found == validTokens(sha256(tokenText))
  IN IF ~Truthy(campaignId) \/ ~Truthy(tokenText)
     THEN /\ apiResponse' = Answer("resolve", body, 400,
                                   [error |-> "campaignId and token are required."],
                                   <<>>, {})
          /\ UNCHANGED dbPerson
     ELSE IF "tokens.select" \in failing \/ Cardinality(found) > 1
          THEN /\ apiResponse' = Answer("resolve", body, 500,
                                        [error |-> "select failed"],
                                        <<"tokens.select">>, {"tokens.select"})
               /\ UNCHANGED dbPerson
          ELSE IF found = {}
               THEN /\ apiResponse' = Answer("resolve", body, 401,
                                             [error |-> "Token is invalid or expired."],
                                             <<"tokens.select">>, {})
                    /\ UNCHANGED dbPerson
               ELSE LET data == CHOOSE record \in found : TRUE
                    IN IF data.campaign_id # campaignId
                       THEN /\ apiResponse' =
                                 Answer("resolve", body, 403,
                                        [error |-> "Token does not match campaign."],
                                        <<"tokens.select">>, {})
                            /\ UNCHANGED dbPerson
                       ELSE /\ dbPerson' =
                                 IF "people.update" \in failing
                                 THEN dbPerson
                                 ELSE markPerson(dbPerson, data.person_id, "viewed")
                            /\ apiResponse' =
                                 Answer("resolve", body, 200,
                                        [personId |-> data.person_id,
                                         displayName |->
                                           personOf(dbPerson, data.person_id).display_name,
                                         role |-> personOf(dbPerson, data.person_id).role],
                                        <<"tokens.select", "people.update">>,
                                        failing \cap {"people.update"})

ResolvePost ==
  /\ \E body \in ResolveBodies,
        failing \in SUBSET {"tokens.select", "people.update"} :
       resolvePost(body, failing)
  /\ UNCHANGED <<flowVars, pageVars, dbRows, dbTokens, dbWeather, clock>>

(***************************************************************************)
(* POST /api/vote/complete                                                 *)
(***************************************************************************)
CompleteBodies == [personId : {NULL, " ", "p1", "zz"}]

\* The handler on one body.  An update that matches no row is no error.
completePost(body, failing) ==
  LET personId == trimmedOpt(body.personId)
  IN IF ~Truthy(personId)
     THEN /\ apiResponse' = Answer("complete", body, 400,
                                   [error |-> "personId is required."], <<>>, {})
          /\ UNCHANGED dbPerson
     ELSE IF "people.update" \in failing
          THEN /\ apiResponse' = Answer("complete", body, 500,
                                        [error |-> "update failed"],
                                        <<"people.update">>, {"people.update"})
               /\ UNCHANGED dbPerson
          ELSE /\ dbPerson' = markPerson(dbPerson, personId, "completed")
               /\ apiResponse' = Answer("complete", body, 200, [ok |-> TRUE],
                                        <<"people.update">>, {})

CompletePost ==
  /\ \E body \in CompleteBodies, failing \in SUBSET {"people.update"} :
       completePost(body, failing)
  /\ UNCHANGED <<flowVars, pageVars, dbRows, dbTokens, dbWeather, clock>>

\* The requests of one invited person: the page resolves the person's link,
\* submits a vote for the person's assignment, with or without a vote in it.
InviteResolveBodies == {[campaignId |-> "c1", token |-> tokenText] : tokenText \in {"t1", "t2"}}
InviteSubmitBodies ==
  {[assignmentId |-> "a1", vote |-> vote, delay_minutes |-> NullNum, comment |-> NULL] :
     vote \in {NULL, "go"}}

InviteResolve ==
  /\ \E body \in InviteResolveBodies, failing \in SUBSET {"people.update"} :
       resolvePost(body, failing)
  /\ UNCHANGED <<flowVars, pageVars, dbRows, dbTokens, dbWeather, clock>>

InviteSubmit ==
  /\ \E body \in InviteSubmitBodies, failing \in SUBSET {"people.update"} :
       submitPost(body, failing)
  /\ UNCHANGED <<flowVars, pageVars, dbTokens, dbWeather, clock>>

\* new Date() moves on between two requests.
Tick ==
  /\ clock < MaxClock
  /\ clock' = clock + 1
  /\ UNCHANGED <<flowVars, pageVars, dbRows, dbPerson, dbTokens, dbWeather,
                 apiResponse>>

(***************************************************************************)
(* GET /api/weather-vote/job-weather                                       *)
(***************************************************************************)
\* searchParams.get(...) of the two parameters: null when the parameter is
\* not in the URL.
JobWeatherQueries ==
  [jobId : {NULL, " ", "7", "8", "abc"}, forecastDate : {NULL, " ", "2026-01-07"}]

\* Number(jobIdRaw) on the texts above.
NaN == 0 - 2
jobNumber(text) ==
  IF text = "7" THEN 7 ELSE IF text = "8" THEN 8 ELSE NaN

\* What supabase.rpc("get_job_hourly_weather") hands back as data: null, an
\* array of rows (empty when nothing matches) or one object.
RpcData ==
  {[kind |-> "null", rows |-> <<>>],
   [kind |-> "array", rows |-> <<>>],
   [kind |-> "array", rows |-> <<"hourly weather">>],
   [kind |-> "object", rows |-> <<"hourly weather">>]}

\* Array.isArray(data) && data.length > 0 ? data[0] : data
weatherObjOf(data) ==
  IF data.kind = "array" /\ Len(data.rows) > 0
  THEN [kind |-> "object", rows |-> <<data.rows[1]>>]
  ELSE data

\* !!weatherObj: null is falsy, an array or an object is truthy.
truthyData(data) == data.kind # "null"

jobWeatherGet(query, failing) ==
  LET jobIdRaw == trimmedOpt(query.jobId)
      forecastDate == trimmedOpt(query.forecastDate)
  IN IF ~Truthy(jobIdRaw) \/ ~Truthy(forecastDate)
     THEN apiResponse' =
            Answer("job-weather", query, 400,
                   [message |-> "jobId and forecastDate are required."], <<>>, {})
     ELSE IF jobNumber(jobIdRaw) = NaN
          THEN apiResponse' =
                 Answer("job-weather", query, 400,
                        [message |-> "jobId must be a number."], <<>>, {})
          ELSE IF "get_job_hourly_weather" \in failing
               THEN apiResponse' =
                      Answer("job-weather", query, 500,
                             [message |-> "rpc failed"],
                             <<"get_job_hourly_weather">>,
                             {"get_job_hourly_weather"})
               ELSE LET weatherObj == weatherObjOf(dbWeather[jobNumber(jobIdRaw)])
                    IN IF ~truthyData(weatherObj)
                       THEN apiResponse' =
                              Answer("job-weather", query, 404,
                                     [message |-> "No hourly weather found"],
                                     <<"get_job_hourly_weather">>, {})
                       ELSE apiResponse' =
                              Answer("job-weather", query, 200,
                                     [weather |-> weatherObj],
                                     <<"get_job_hourly_weather">>, {})

JobWeatherGet ==
  /\ \E query \in JobWeatherQueries, failing \in SUBSET {"get_job_hourly_weather"} :
       jobWeatherGet(query, failing)
  /\ UNCHANGED <<flowVars, pageVars, dbRows, dbPerson, dbTokens, dbWeather, clock>>

(***************************************************************************)
(* The campaign voting page served by the route handlers.                  *)
(***************************************************************************)
\* GET /api/vote/assignments: a row as the page receives it.
assignmentOf(rows, i) ==
  [assignmentId |-> rows[i].id,
   status |-> rows[i].status,
   vote |-> rows[i].vote,
   delay_minutes |-> rows[i].delay_minutes,
   comment |-> rows[i].comment,
   voted_at |-> NULL,
   internal_job_id |-> ToString(100 + i)]

AssignmentsServed ==
  /\ pagePc = "listing"
  /\ assignments' = [i \in 1..Len(dbRows) |-> assignmentOf(dbRows, i)]
  /\ pageLoading' = FALSE
  /\ pagePc' = "done"
  /\ UNCHANGED <<flowVars, serverVars, pageWeatherVars, completeOutcome, pageToken,
                 pageError, person, currentIndex, saving, saveError, saPc,
                 saSnapshot, saPos, saUpdates, saRequest, editsWhileSaving>>

\* submitVote answered by the handler of /api/vote/submit: data.assignment
\* goes on into the loop of submitAllVotes, a non-OK answer is thrown.
SubmitVoteServed ==
  /\ saPc = "submitting"
  /\ \E failing \in SUBSET {"assignments.update", "people.update"} :
       submitPost(saRequest[1], failing)
  /\ IF apiResponse'[1].status = 200
     THEN runSubmitAll(saSnapshot, saPos + 1,
                       Put(saUpdates, saSnapshot[saPos].assignmentId,
                           reconciled(saSnapshot[saPos],
                                      apiResponse'[1].body.assignment)),
                       saveError)
     ELSE /\ saveError' = IF Truthy(apiResponse'[1].body.error)
                          THEN apiResponse'[1].body.error
                          ELSE "Failed to submit vote."
          /\ saving' = FALSE
          /\ saPc' = "idle"
          /\ saRequest' = <<>>
          /\ saPos' = 0
          /\ saUpdates' = EmptyMap
          /\ saSnapshot' = <<>>
          /\ UNCHANGED assignments
  /\ UNCHANGED <<flowVars, pageWeatherVars, completeOutcome, pageToken,
                 pageLoading, pageError, person, currentIndex, pagePc,
                 editsWhileSaving, dbTokens, dbWeather, clock>>

(***************************************************************************)
(* Specifications.                                                         *)
(***************************************************************************)
vars == <<flowVars, pageVars, serverVars>>

\* The parts at rest; each specification runs one part.
FlowIdle ==
  /\ FlowInit
  /\ token = "tok"

PageIdle ==
  /\ PageInit
  /\ pageToken = "t"

ServerIdle ==
  /\ dbRows = <<>>
  /\ dbPerson = <<>>
  /\ dbTokens = {}
  /\ dbWeather = EmptyMap
  /\ clock = 0
  /\ apiResponse = <<>>

\* The token voting flow.
Init == FlowInit /\ PageIdle /\ ServerIdle
Next == FlowNext
Spec == Init /\ [][Next]_vars

\* Context loads over the contexts of the normalizer.
NextNormalize ==
  \/ LoadStart
  \/ LoadNormalize
  \/ LoadFail
SpecNormalize == Init /\ [][NextNormalize]_vars

\* loadContext on the contexts with aggregate counts.
NextCounts ==
  \/ LoadStart
  \/ LoadCounted
  \/ LoadFail
SpecCounts == Init /\ [][NextCounts]_vars

\* The voting flow of a voter who, on a context without votes, only enters
\* a vote and submits, item after item, every submission succeeding.
InitInOrder == FlowIdle /\ PageIdle /\ ServerIdle
NextInOrder ==
  \/ LoadStart
  \/ LoadNoVotes
  \/ OnBegin
  \/ SelectVote
  \/ TypeReason
  \/ HandleSubmit
  \/ SubmitSucceed
  \/ DelayFire
SpecInOrder == InitInOrder /\ [][NextInOrder]_vars

\* The campaign voting page.
InitCampaign == FlowIdle /\ PageInit /\ ServerIdle
NextCampaign == PageNext
SpecCampaign == InitCampaign /\ [][NextCampaign]_vars

\* The submit route handlers over a table of pending rows.
InitSubmitApi ==
  /\ FlowIdle
  /\ PageIdle
  /\ dbRows \in {[i \in 1..n |-> DbRow("a" \o ToString(i))] : n \in 0..Cardinality(DbRowIds)}
  /\ dbPerson \in {<<person0>> : person0 \in DbPeople}
  /\ dbTokens = {}
  /\ dbWeather = EmptyMap
  /\ clock = 0
  /\ apiResponse = <<>>
NextSubmitApi ==
  \/ SubmitPost
  \/ SubmitPostV2
  \/ WeatherVoteSubmitPost
SpecSubmitApi == InitSubmitApi /\ [][NextSubmitApi]_vars

\* Token resolution over a tokens table with at most one record.
InitResolveApi ==
  /\ FlowIdle
  /\ PageIdle
  /\ dbRows = <<>>
  /\ dbPerson \in {<<person0>> : person0 \in DbPeople}
  /\ dbTokens \in {{}} \cup {{record} : record \in DbTokenRecords}
  /\ dbWeather = EmptyMap
  /\ clock = 0
  /\ apiResponse = <<>>
NextResolveApi ==
  \/ ResolvePost
  \/ Tick
SpecResolveApi == InitResolveApi /\ [][NextResolveApi]_vars

\* The campaign voting page with its submissions answered by the handler, for
\* a voter who only moves forward.
InitCampaignServer ==
  /\ FlowIdle
  /\ PageIdle
  /\ dbRows \in {[i \in 1..n |-> DbRow("a" \o ToString(i))] :
                   n \in 1..MaxAssignments}
  /\ dbPerson = <<CHOOSE person0 \in DbPeople : person0.invite_status = "sent">>
  /\ dbTokens = {}
  /\ dbWeather = EmptyMap
  /\ clock = 0
  /\ apiResponse = <<>>
NextCampaignServer ==
  \/ PageLoadStart
  \/ ResolveOk
  \/ AssignmentsServed
  \/ PageLoadFail
  \/ VoteButton
  \/ EditComment
  \/ GoNext
  \/ SubmitVoteServed
  \/ FinishVotingDone
SpecCampaignServer == InitCampaignServer /\ [][NextCampaignServer]_vars

\* The weather panel of the token voting flow.
NextFlowWeather ==
  \/ LoadStart
  \/ LoadSucceed
  \/ OnBegin
  \/ ArrowPrev
  \/ ArrowNext
  \/ ToggleWeather
  \/ WeatherSucceed
  \/ WeatherFail
SpecFlowWeather == InitInOrder /\ [][NextFlowWeather]_vars

\* The weather effect of the campaign voting page while the voter moves
\* through the assignments.
InitCampaignWeather == FlowIdle /\ PageIdle /\ ServerIdle
NextCampaignWeather ==
  \/ PageLoadStart
  \/ ResolveOk
  \/ AssignmentsOk
  \/ VoteButton
  \/ GoPrev
  \/ GoNext
  \/ WeatherEffect
  \/ WeatherAnswered
SpecCampaignWeather == InitCampaignWeather /\ [][NextCampaignWeather]_vars

\* The same page when React runs the effect after every render that changed
\* a dependency and every fetch of loadWeather is answered.  What the voter
\* does, and when, is left open.
SpecCampaignWeatherFair ==
  /\ SpecCampaignWeather
  /\ WF_vars(WeatherEffect)
  /\ WF_vars(WeatherAnswered)

\* The job-weather handler over what the backend finds for two jobs.
InitJobWeatherApi ==
  /\ FlowIdle
  /\ PageIdle
  /\ dbRows = <<>>
  /\ dbPerson = <<>>
  /\ dbTokens = {}
  /\ dbWeather \in [{7, 8} -> RpcData]
  /\ clock = 0
  /\ apiResponse = <<>>
NextJobWeatherApi == JobWeatherGet
SpecJobWeatherApi == InitJobWeatherApi /\ [][NextJobWeatherApi]_vars

\* The page with its effects torn down by a change of the token: while the
\* load is in flight, and while a weather request is (the list that comes
\* with the new token has another current job, or none).
InitCampaignTeardown == FlowIdle /\ PageIdle /\ ServerIdle
NextCampaignTeardown ==
  \/ PageLoadStart
  \/ ResolveOk
  \/ AssignmentsOk
  \/ PageLoadFail
  \/ TokenChanges
  \/ StaleLoadAnswered
  \/ WeatherEffect
  \/ WeatherAnswered
SpecCampaignTeardown == InitCampaignTeardown /\ [][NextCampaignTeardown]_vars

\* The renders of the weather panel over the hourly lists.
InitPeak == FlowIdle /\ PageIdle /\ ServerIdle
NextPeak == RenderPeak
SpecPeak == InitPeak /\ [][NextPeak]_vars

\* The three handlers that write invite_status, called in any order for one
\* invited person with a valid link and one assignment.
InitInviteApi ==
  /\ FlowIdle
  /\ PageIdle
  /\ dbRows = <<DbRow("a1")>>
  /\ dbPerson = <<CHOOSE person0 \in DbPeople : person0.invite_status = "sent">>
  /\ dbTokens = {[token_hash |-> sha256("t1"), person_id |-> "p1",
                  campaign_id |-> "c1", revoked_at |-> NullNum,
                  expires_at |-> MaxClock + 1]}
  /\ dbWeather = EmptyMap
  /\ clock = 0
  /\ apiResponse = <<>>
NextInviteApi ==
  \/ InviteResolve
  \/ InviteSubmit
  \/ CompletePost
  \/ Tick
SpecInviteApi == InitInviteApi /\ [][NextInviteApi]_vars

(***************************************************************************)
(* Properties.                                                             *)
(***************************************************************************)
MinOfSet(S) == CHOOSE x \in S : \A y \in S : x <= y
MaxOfSet(S) == CHOOSE x \in S : \A y \in S : x >= y

\* The composite key of the data model, as a tuple.
CompositeKey(r) == <<r.internal_job_id, r.forecast_date, r.lens_id>>

\* 0-based indices after `from` whose item has no vote value in the vote map.
UnvotedAfter(from) ==
  {j \in (from + 1)..(Len(items) - 1) : ~hasVoteValue(votes, items[j + 1])}

\* C1: when the delayed transition of a successful submission made at index
\* i runs, the vote map holds a vote value for item i; the current index
\* becomes the least j > i whose item has no vote value in the vote map and
\* the view stays 'voting', or, when there is no such j, the view becomes
\* 'summary', whatever the items before i.
C1_ForwardScanAfterSubmit ==
  [][DelayFire =>
       LET from == Head(timers).from
       IN /\ hasVoteValue(votes, items[from + 1])
          /\ IF UnvotedAfter(from) # {}
             THEN /\ currentJobIndex' = MinOfSet(UnvotedAfter(from))
                  /\ viewState' = "voting"
             ELSE viewState' = "summary"]_vars

\* The summary was reached from a submission at a later index while the
\* first item is still without a vote.
C1_Witness ==
  /\ viewState = "summary"
  /\ Len(items) >= 2
  /\ ~hasVoteValue(votes, items[1])
  /\ \E j \in 2..Len(items) :
       /\ getItemKey(items[j]) \in DOMAIN votes
       /\ votes[getItemKey(items[j])].voted_at = "now"

\* C2: on a context with n >= 1 items and no votes, a voter submitting on
\* every item in index order, every submission succeeding, ends in
\* 'summary', and there the vote map holds for every item the vote value and
\* the reason submitted for it.
C2_InOrderRunEndsInSummary ==
  LET keys == {getItemKey(items[i]) : i \in 1..Len(items)}
  IN /\ (loadPhase = "done" /\ keys \subseteq DOMAIN backendVotes
           /\ requests = <<>> /\ timers = <<>>)
          => viewState = "summary"
     /\ viewState = "summary" =>
          \A k \in keys :
            /\ k \in DOMAIN backendVotes
            /\ k \in DOMAIN votes
            /\ votes[k].vote_value = backendVotes[k].vote_value
            /\ votes[k].vote_reason = backendVotes[k].vote_reason

C2_Witness ==
  /\ viewState = "summary"
  /\ Len(items) >= 2
  /\ votes[getItemKey(items[1])].vote_value = "Dispatch anyway"
  /\ votes[getItemKey(items[2])].vote_value = "Cancel"
  /\ votes[getItemKey(items[2])].vote_reason = "too risky"

\* A successful completion of loadContext.
LoadCompletes == loadPhase = "fetching" /\ loadPhase' = "done" /\ context' # <<>>

\* C3 as stated: a successful load whose items all have a non-null vote
\* value in the merged map goes from 'loading' to 'summary', every other
\* successful load to 'welcome'.
C3_Original ==
  [][LoadCompletes =>
       IF \A i \in 1..Len(items') :
            voteValueAt(votes', getItemKey(items'[i])) # NULL
       THEN viewState = "loading" /\ viewState' = "summary"
       ELSE viewState' = "welcome"]_vars

\* C3 amended: a successful load whose item list is not empty and whose
\* items all have a non-empty vote value in the merged map goes from
\* 'loading' directly to 'summary'; every other successful load goes to
\* 'welcome'.
C3_AllVotedSkipsWelcome ==
  [][LoadCompletes =>
       IF /\ Len(items') > 0
          /\ \A i \in 1..Len(items') :
               voteValueAt(votes', getItemKey(items'[i])) \notin {NULL, ""}
       THEN viewState = "loading" /\ viewState' = "summary"
       ELSE viewState' = "welcome"]_vars

\* A load has landed on the summary: no submission was ever made.
C3_Witness ==
  /\ viewState = "summary"
  /\ loadPhase = "done"
  /\ Len(items) >= 2
  /\ backendVotes = EmptyMap

AllowedViewChanges ==
  {<<"loading", "welcome">>, <<"loading", "summary">>, <<"loading", "error">>,
   <<"welcome", "voting">>, <<"voting", "summary">>, <<"summary", "welcome">>}

\* C4: the view starts as 'loading' and every change of it is one of
\* loading->welcome, loading->summary, loading->error, welcome->voting,
\* voting->summary, summary->welcome, or a change to 'error' made by a
\* failing load; inside 'voting' only the index changes.
C4_ViewTransitions ==
  /\ viewState = "loading"
  /\ [][viewState' # viewState =>
          \/ <<viewState, viewState'>> \in AllowedViewChanges
          \/ viewState' = "error" /\ loadPhase # "done" /\ loadPhase' = "done"]_vars

\* The voter is back on the welcome screen after voting and the summary.
C4_Witness ==
  /\ viewState = "welcome"
  /\ backendVotes # EmptyMap

\* C5: 'error' is never left, and 'summary' is left only by the back action:
\* the step changes the view to 'welcome' and nothing else, so no timer, no
\* response of a submission and no load completion leaves it.
C5_ErrorAndSummarySteady ==
  [][/\ viewState = "error" => viewState' = "error"
     /\ (viewState = "summary" /\ viewState' # "summary") =>
          /\ viewState' = "welcome"
          /\ UNCHANGED <<token, error, context, items, votes, currentJobIndex,
                         submitting, counts, capturedVotes, selectedVote,
                         reason, loadPhase, requests, timers, backendVotes,
                         alerted>>]_vars

\* The summary reached by the timer of the last submission, nothing pending.
C5_Witness ==
  /\ viewState = "summary"
  /\ backendVotes # EmptyMap
  /\ requests = <<>>
  /\ timers = <<>>
  /\ ~submitting

\* A response of a submit request that schedules no timer: the failure path.
SubmissionFails == Len(requests') < Len(requests) /\ timers' = timers

\* C6: a failing submission leaves the view 'voting', the current index, the
\* vote map, the selected option and the reason text as they were, and the
\* busy flag is false after it.
C6_FailedSubmitKeepsInput ==
  [][SubmissionFails =>
       /\ viewState = "voting"
       /\ viewState' = "voting"
       /\ currentJobIndex' = currentJobIndex
       /\ votes' = votes
       /\ selectedVote' = selectedVote
       /\ reason' = reason
       /\ Truthy(selectedVote')
       /\ Truthy(Trim(reason'))
       /\ submitting' = FALSE]_vars

\* After a failure: the alert was shown, the form still holds the input and
\* the item is still without the vote.
C6_Witness ==
  /\ alerted # NULL
  /\ viewState = "voting"
  /\ ~submitting
  /\ selectedVote = "Cancel"
  /\ reason = "too risky"
  /\ backendVotes = EmptyMap
  /\ votes = EmptyMap

\* C7: at most one submit request is in flight, and from the start of a
\* submission until the busy flag is cleared no second one starts: a
\* request in flight or a pending post-success timer implies the busy flag,
\* requests and timers together are at most one, and a submission starts
\* only with the busy flag down.
C7_OneSubmissionAtATime ==
  /\ [](/\ Len(requests) + Len(timers) <= 1
        /\ (Len(requests) + Len(timers) = 1) <=> submitting)
  /\ [][Len(requests') > Len(requests) => ~submitting /\ submitting']_vars

\* A request is in flight while the form holds a complete input.
C7_Witness ==
  /\ Len(requests) = 1
  /\ submitting
  /\ Truthy(selectedVote)
  /\ Truthy(Trim(reason))

\* 1-based position of the first entry of list with the composite key.
FirstWithKey(list, key) ==
  MinOfSet({i \in 1..Len(list) : CompositeKey(list[i]) = key})

\* C8: after a load, the item list has no two entries with the same
\* composite key (internal_job_id, forecast_date, lens_id), holds every key
\* of the mapped input exactly once, holds for each key the first entry of
\* the input with that key, and keeps the input order.
C8_DedupeKeepsFirstPerKey ==
  (loadPhase = "done" /\ context # <<>>) =>
    LET input == mapItems(context[1].items)
    IN /\ \A a, b \in 1..Len(items) :
            CompositeKey(items[a]) = CompositeKey(items[b]) => a = b
       /\ \A i \in 1..Len(input) :
            Cardinality({a \in 1..Len(items) :
                           CompositeKey(items[a]) = CompositeKey(input[i])}) = 1
       /\ \A a \in 1..Len(items) :
            /\ \E i \in 1..Len(input) : CompositeKey(input[i]) = CompositeKey(items[a])
            /\ items[a] = input[FirstWithKey(input, CompositeKey(items[a]))]
       /\ \A a, b \in 1..Len(items) :
            a < b => FirstWithKey(input, CompositeKey(items[a]))
                       < FirstWithKey(input, CompositeKey(items[b]))

\* A later duplicate that differs from the survivor was dropped, and keys
\* that differ only in the lens survived side by side.
C8_Witness ==
  /\ loadPhase = "done"
  /\ context # <<>>
  /\ Len(items) >= 2
  /\ \E i, j \in 1..Len(mapItems(context[1].items)) :
       LET input == mapItems(context[1].items)
       IN /\ i < j
          /\ CompositeKey(input[i]) = CompositeKey(input[j])
          /\ input[i] # input[j]
  /\ \E a, b \in 1..Len(items) :
       /\ items[a].internal_job_id = items[b].internal_job_id
       /\ items[a].forecast_date = items[b].forecast_date
       /\ items[a].lens_id # items[b].lens_id

\* Positions of the votes-list entries with the composite key of the item.
ListedFor(item) ==
  {j \in 1..Len(context[1].votes) :
     CompositeKey(context[1].votes[j]) = CompositeKey(item)}

\* C9: after a load, an item key with an entry in the votes list holds in
\* the merged map the last such entry, also when the item carries an
\* embedded vote; a key with only an embedded vote holds that vote.
C9_VotesListWinsOverEmbedded ==
  (loadPhase = "done" /\ context # <<>>) =>
    \A a \in 1..Len(items) :
      LET key == getItemKey(items[a])
          listed == ListedFor(items[a])
      IN /\ listed # {} =>
              /\ key \in DOMAIN votes
              /\ votes[key] = context[1].votes[MaxOfSet(listed)]
         /\ (listed = {} /\ items[a].existing_vote # <<>>) =>
              /\ key \in DOMAIN votes
              /\ votes[key].vote_value = items[a].existing_vote[1].vote_value
              /\ votes[key].vote_reason = items[a].existing_vote[1].vote_reason
              /\ votes[key].voted_at = items[a].existing_vote[1].voted_at
         /\ (listed = {} /\ items[a].existing_vote = <<>>) => key \notin DOMAIN votes

\* An item with an embedded vote and two differing votes-list entries.
C9_Witness ==
  /\ loadPhase = "done"
  /\ context # <<>>
  /\ \E a \in 1..Len(items) :
       /\ items[a].existing_vote # <<>>
       /\ Cardinality(ListedFor(items[a])) >= 2
       /\ \E j \in ListedFor(items[a]) :
            context[1].votes[j] # context[1].votes[MaxOfSet(ListedFor(items[a]))]
       /\ votes[getItemKey(items[a])].vote_value # items[a].existing_vote[1].vote_value

\* A delay vote whose minutes are 0 or missing.
DelayWithoutMinutes(a) == a.vote = "delay" /\ a.delay_minutes \in {0, NullNum}

\* C10: while an assignment is a delay vote with delay_minutes 0 or missing,
\* allComplete is false, canAdvance is false when it is the current one and
\* the completeness test of submitAllVotes answers it with the delay-minutes error; no
\* submitAllVotes runs over such an assignment and no submit request
\* carries a delay vote without minutes.
C10_DelayWithoutMinutesIncomplete ==
  /\ \A i \in 1..Len(assignments) :
       DelayWithoutMinutes(assignments[i]) =>
         /\ ~allComplete
         /\ (i = currentIndex + 1 => ~canAdvance)
         /\ preCheck(assignments[i]) = "Please select delay minutes for every delay vote."
  /\ \A i \in 1..Len(saSnapshot) : ~DelayWithoutMinutes(saSnapshot[i])
  /\ saRequest # <<>> => ~DelayWithoutMinutes(saRequest[1])

\* On the last job, every other job complete, the custom input emptied.
C10_Witness ==
  /\ votingFormShown
  /\ Len(assignments) >= 2
  /\ currentIndex + 1 = Len(assignments)
  /\ current.vote = "delay"
  /\ current.delay_minutes = 0
  /\ \A i \in 1..(Len(assignments) - 1) :
       Truthy(assignments[i].vote) /\ ~DelayWithoutMinutes(assignments[i])


(***************************************************************************)
(* The route handlers (SpecSubmitApi).                                     *)
(***************************************************************************)
\* A request that fails the validation of its submit endpoint, stated from
\* the fields of the request.
FailsValidation(answer) ==
  LET request == answer.request
  IN \/ /\ answer.route = "submit"
        /\ \/ request.assignmentId \in {NULL, " "}
           \/ request.vote = NULL
           \/ request.vote \notin {"go", "delay", "hold"}
           \/ request.vote # "delay" /\ request.delay_minutes # NullNum
     \/ /\ answer.route = "weather-vote submit"
        /\ \/ request.token \in {NULL, " "}
           \/ request.voteValue \in {NULL, " "}
           \/ request.internalJobId = NullNum

\* C11: every request that fails validation at a submit endpoint (the
\* assignment submit endpoint: assignmentId or vote missing, vote outside
\* go/delay/hold, delay_minutes sent with a non-delay vote; the weather-vote
\* submit endpoint: token or voteValue missing or blank, internalJobId
\* missing) is answered with status 400, and the handler makes no backend
\* call: none is listed in the answer and the tables are as they were.
C11_InvalidRequestNeverReachesBackend ==
  [][\A i \in 1..Len(apiResponse') :
       FailsValidation(apiResponse'[i])
         => /\ apiResponse'[i].status = 400
            /\ apiResponse'[i].calls = <<>>
            /\ UNCHANGED <<dbRows, dbPerson>>]_vars

\* A go vote for a stored row that carries delay_minutes has been answered
\* with 400.
C11_Witness ==
  /\ Len(dbRows) = 1
  /\ \E i \in 1..Len(apiResponse) :
       /\ apiResponse[i].route = "submit"
       /\ apiResponse[i].request.assignmentId = "a1"
       /\ apiResponse[i].request.vote = "go"
       /\ apiResponse[i].request.delay_minutes = 30
       /\ apiResponse[i].status = 400

\* C12: every row written by the assignment submit endpoint, in either of its
\* versions and after any sequence of submissions, has a positive
\* delay_minutes if its vote is delay and a null delay_minutes if its vote is
\* go or hold.
C12_WrittenRowsDelayMinutes ==
  \A i \in 1..Len(dbRows) :
    dbRows[i].written
      => /\ dbRows[i].vote = "delay"
              => dbRows[i].delay_minutes # NullNum /\ dbRows[i].delay_minutes > 0
         /\ dbRows[i].vote \in {"go", "hold"}
              => dbRows[i].delay_minutes = NullNum

\* A delay vote sent without usable minutes has been stored.
C12_Witness ==
  \E i \in 1..Len(apiResponse), j \in 1..Len(dbRows) :
    /\ apiResponse[i].route = "submit"
    /\ apiResponse[i].status = 200
    /\ apiResponse[i].request.vote = "delay"
    /\ apiResponse[i].request.delay_minutes \in {NullNum, 0}
    /\ dbRows[j].written
    /\ dbRows[j].vote = "delay"

\* The answers that report an accepted submission.
Accepted(answer) ==
  answer.route \in {"submit", "submit v2"} /\ answer.status = 200

\* C13: over every sequence of submit requests the status of a row never
\* leaves voted; a row changes only in a step whose answer is an accepted
\* submission, whose one update leaves the vote, delay_minutes and comment of
\* the answer in the row together with status voted and a set voted_at; no
\* row written by the handlers is pending or without voted_at; and a request
\* that is not accepted leaves every row as it was.
C13_VotedOnceAndAtomic ==
  /\ [](\A i \in 1..Len(dbRows) :
          dbRows[i].written
            => dbRows[i].status = "voted" /\ dbRows[i].voted_at # NULL)
  /\ [][/\ Len(dbRows') = Len(dbRows)
        /\ \A i \in 1..Len(dbRows) :
             /\ dbRows[i].status = "voted" => dbRows'[i].status = "voted"
             /\ dbRows'[i] # dbRows[i]
                  => /\ Len(apiResponse') = 1
                     /\ Accepted(apiResponse'[1])
                     /\ Len(SelectSeq(apiResponse'[1].calls,
                                      LAMBDA call : call = "assignments.update")) = 1
                     /\ dbRows'[i].vote = apiResponse'[1].body.assignment.vote
                     /\ dbRows'[i].delay_minutes
                          = apiResponse'[1].body.assignment.delay_minutes
                     /\ dbRows'[i].comment = apiResponse'[1].body.assignment.comment
                     /\ dbRows'[i].vote = apiResponse'[1].request.vote
                     /\ dbRows'[i].status = "voted"
                     /\ dbRows'[i].voted_at # NULL
        /\ (\A i \in 1..Len(apiResponse') : ~Accepted(apiResponse'[i]))
             => dbRows' = dbRows]_vars

\* A voted row stands after a submission for it was turned down.
C13_Witness ==
  /\ \E j \in 1..Len(dbRows) :
       /\ dbRows[j].written
       /\ dbRows[j].status = "voted"
       /\ dbRows[j].vote = "hold"
  /\ \E i \in 1..Len(apiResponse) :
       /\ apiResponse[i].route = "submit"
       /\ apiResponse[i].request.assignmentId = "a1"
       /\ apiResponse[i].request.vote = "go"
       /\ apiResponse[i].status \in {400, 500}


(***************************************************************************)
(* Token resolution (SpecResolveApi).                                      *)
(***************************************************************************)
\* The records of the request's token that are neither revoked nor expired,
\* and whether the request lacks a field.
ValidRecordsFor(request) ==
  {record \in dbTokens :
     /\ record.token_hash = sha256(request.token)
     /\ record.revoked_at = NullNum
     /\ record.expires_at > clock}

LacksField(request) ==
  request.campaignId \in {NULL, " "} \/ request.token \in {NULL, " "}

\* A step in which a resolution is answered: the time stands still.
ResolutionAnswered ==
  /\ clock' = clock
  /\ Len(apiResponse') = 1
  /\ apiResponse'[1].route = "resolve"

\* C14, as stated: a resolution answers 401 "invalid or expired" whenever no
\* record of the token's hash is both unrevoked and unexpired, answers 403
\* "does not match" exactly when such a record exists for another campaign,
\* and answers 400 before any lookup when campaignId or token is missing.
C14_Original ==
  [][ResolutionAnswered
       => LET answer == apiResponse'[1]
              request == apiResponse'[1].request
          IN /\ LacksField(request)
                  => answer.status = 400 /\ answer.calls = <<>>
             /\ ~LacksField(request) /\ ValidRecordsFor(request) = {}
                  => /\ answer.status = 401
                     /\ answer.body.error = "Token is invalid or expired."
             /\ answer.status = 403
                  <=> /\ ~LacksField(request)
                      /\ \E record \in ValidRecordsFor(request) :
                           record.campaign_id # request.campaignId]_vars

\* C14, amended: the same, for the resolutions whose lookup of the token
\* does not fail; a failing lookup is answered with 500 whatever the table
\* holds, and 500 is answered in no other case.
C14_TokenResolutionOutcome ==
  [][ResolutionAnswered
       => LET answer == apiResponse'[1]
              request == apiResponse'[1].request
              lookupFailed == "tokens.select" \in answer.failed
          IN /\ LacksField(request)
                  => answer.status = 400 /\ answer.calls = <<>>
             /\ ~LacksField(request) /\ lookupFailed <=> answer.status = 500
             /\ ~LacksField(request) /\ ~lookupFailed
                  /\ ValidRecordsFor(request) = {}
                  => /\ answer.status = 401
                     /\ answer.body.error = "Token is invalid or expired."
             /\ answer.status = 403
                  <=> /\ ~LacksField(request)
                      /\ ~lookupFailed
                      /\ \E record \in ValidRecordsFor(request) :
                           record.campaign_id # request.campaignId
             /\ answer.status = 403
                  => answer.body.error = "Token does not match campaign."]_vars

\* An expired token that was never revoked has been answered with 401.
C14_Witness ==
  /\ \E record \in dbTokens :
       /\ record.token_hash = sha256("t1")
       /\ record.revoked_at = NullNum
       /\ record.expires_at <= clock
  /\ \E i \in 1..Len(apiResponse) :
       /\ apiResponse[i].route = "resolve"
       /\ apiResponse[i].request.token = "t1"
       /\ apiResponse[i].status = 401

\* C15: a resolution changes the person record only when it succeeds, for a
\* valid token of the requested campaign, and then leaves invite_status
\* viewed; a resolution answered with 400, 401, 403 or 500 leaves the record
\* as it was; and a person once viewed is still viewed after any further
\* resolution.
C15_ViewedOnlyOnSuccess ==
  [][\A i \in 1..Len(dbPerson) :
       /\ dbPerson'[i] # dbPerson[i]
            => /\ ResolutionAnswered
               /\ apiResponse'[1].status = 200
               /\ \E record \in ValidRecordsFor(apiResponse'[1].request) :
                    /\ record.campaign_id = apiResponse'[1].request.campaignId
                    /\ record.person_id = dbPerson[i].id
               /\ dbPerson'[i].invite_status = "viewed"
       /\ ResolutionAnswered /\ apiResponse'[1].status \in {400, 401, 403, 500}
            => dbPerson'[i] = dbPerson[i]
       /\ dbPerson[i].invite_status = "viewed"
            => dbPerson'[i].invite_status = "viewed"]_vars

\* A second successful resolution, later than the first, has been answered.
C15_Witness ==
  /\ clock > 0
  /\ \E i \in 1..Len(dbPerson) :
       /\ dbPerson[i].invite_status = "viewed"
       /\ dbPerson[i].last_activity_at = clock
  /\ \E i \in 1..Len(apiResponse) :
       /\ apiResponse[i].route = "resolve"
       /\ apiResponse[i].status = 200


(***************************************************************************)
(* The campaign voting page and the submit handler (SpecCampaignServer).   *)
(***************************************************************************)
\* The loop of submitAllVotes ends and its updates are put into the list.
UpdatesApplied == saPc = "submitting" /\ saPc' = "finishing"

\* The await of finishVoting ends.
CompletionSettles == saPc = "finishing" /\ saPc' = "idle"

\* C16: a failing activity marker does not change the outcome of voting.  A
\* submission whose row update succeeds is answered with status 200 and the
\* stored row, whether or not the invite-status update fails; and when the
\* completion call settles, whatever its outcome, the page shows the
\* completion screen (currentIndex at the end of the list, not saving) with
\* no error.
C16_MarkerFailureSwallowed ==
  [][/\ \A i \in 1..Len(apiResponse') :
          /\ apiResponse'[i].route = "submit"
          /\ "assignments.update" \notin apiResponse'[i].failed
          /\ apiResponse'[i].calls # <<>>
          => /\ apiResponse'[i].status = 200
             /\ hasRow(dbRows', apiResponse'[i].request.assignmentId)
             /\ apiResponse'[i].body.assignment
                  = selectedRow(rowOf(dbRows', apiResponse'[i].request.assignmentId))
             /\ apiResponse'[i].body.assignment.vote = apiResponse'[i].request.vote
     /\ CompletionSettles
          => /\ completeOutcome' \in CompleteOutcomes
             /\ currentIndex' = Len(assignments')
             /\ ~saving'
             /\ saveError' = NULL
             /\ pageError' = NULL
             /\ ~pageLoading']_vars

\* The completion screen is up after a completion call that failed and a
\* submission whose invite-status update failed.
C16_Witness ==
  /\ completeOutcome \in {"status 500", "network error"}
  /\ Len(assignments) > 0
  /\ currentIndex = Len(assignments)
  /\ saveError = NULL
  /\ \E i \in 1..Len(apiResponse) :
       /\ apiResponse[i].status = 200
       /\ "people.update" \in apiResponse[i].failed
  /\ \A i \in 1..Len(dbRows) : dbRows[i].status = "voted"

\* C17: when submitAllVotes has put its updates into the list, every local
\* assignment has the vote, delay_minutes, comment, status and voted_at of
\* the row the backend returned for it, which is the row the backend holds.
C17_LocalEqualsReturnedRow ==
  [][UpdatesApplied
       => \A i \in 1..Len(assignments') :
            /\ hasRow(dbRows', assignments'[i].assignmentId)
            /\ LET row == rowOf(dbRows', assignments'[i].assignmentId)
               IN /\ assignments'[i].vote = row.vote
                  /\ assignments'[i].delay_minutes = row.delay_minutes
                  /\ assignments'[i].comment = row.comment
                  /\ assignments'[i].status = row.status
                  /\ assignments'[i].voted_at = row.voted_at]_vars


(***************************************************************************)
(* The weather lookups (SpecCampaignWeather, SpecFlowWeather).             *)
(***************************************************************************)
\* C18: in the campaign voting page an entry of the weather cache, a payload
\* or the null of a 404, stays in the cache, and no step starts a weather
\* request for a job id that is in the cache: not a navigation, not a run of
\* the effect, not an answer.
C18_CachedJobNeverRefetched ==
  [][\A key \in DOMAIN weatherCache :
       /\ key \in DOMAIN weatherCache'
       /\ weatherCache'[key] = weatherCache[key]
       /\ ~(key \notin weatherLoading /\ key \in weatherLoading')
       /\ \A request \in weatherInFlight' \ weatherInFlight :
            request.key = key => request.cancelled]_vars

\* The voter is back on a job whose lookup was answered with 404, the effect
\* has run there, and nothing is in flight.
C18_Witness ==
  /\ hasCurrent
  /\ currentJobId \in DOMAIN weatherCache
  /\ weatherCache[currentJobId] = NULL
  /\ \E other \in DOMAIN weatherCache : other # currentJobId
  /\ weatherDeps = <<currentJobId, weatherCache, weatherErrors>>
  /\ weatherInFlight = {}

\* C19: in the token voting flow, once a weather result is stored for an
\* item key, the null stored after a failed lookup included, no toggle of
\* the weather panel sends another weather request for that key.
C19_StoredResultNeverRefetched ==
  [][Len(weatherRequests') > Len(weatherRequests)
       => weatherRequests'[Len(weatherRequests')] \notin DOMAIN weatherData]_vars


(***************************************************************************)
(* The job-weather handler (SpecJobWeatherApi).                            *)
(***************************************************************************)
\* What the backend holds for the job of a query, and whether that is no
\* hourly weather: a null result or an empty result set.
FoundFor(query) ==
  dbWeather[IF query.jobId = "7" THEN 7 ELSE 8]

NoWeather(data) ==
  data.kind = "null" \/ (data.kind = "array" /\ data.rows = <<>>)

\* C20: the job-weather endpoint answers 400 when jobId or forecastDate is
\* missing or jobId is not a number, 500 on a backend error, 404 whenever
\* the backend finds no hourly weather for the job and date (a null result
\* or an empty result set), and 200 with a weather object only when a
\* weather row exists.
C20_JobWeatherAnswers ==
  \A i \in 1..Len(apiResponse) :
    apiResponse[i].route = "job-weather"
      => LET answer == apiResponse[i]
             query == apiResponse[i].request
             malformed == \/ query.jobId \in {NULL, " "}
                          \/ query.forecastDate \in {NULL, " "}
                          \/ query.jobId \notin {"7", "8"}
             backendError == "get_job_hourly_weather" \in answer.failed
         IN /\ malformed => answer.status = 400 /\ answer.calls = <<>>
            /\ ~malformed /\ backendError => answer.status = 500
            /\ ~malformed /\ ~backendError /\ NoWeather(FoundFor(query))
                 => answer.status = 404
            /\ answer.status = 200
                 => /\ ~malformed
                    /\ ~NoWeather(FoundFor(query))
                    /\ answer.body.weather.kind = "object"
                    /\ answer.body.weather.rows = <<"hourly weather">>


(***************************************************************************)
(* The index of the token voting flow (Spec).                              *)
(***************************************************************************)
\* C23: in the token voting flow with a non-empty item list the current
\* index stays within 0 .. items.length - 1 through every prev/next button
\* press, arrow key, submission and context load, and a prev at index 0 or
\* a next at the last index leaves the index where it is.
C23_IndexWithinList ==
  /\ [](Len(items) > 0
          => currentJobIndex >= 0 /\ currentJobIndex <= Len(items) - 1)
  /\ [][/\ viewState = "voting" /\ viewState' = "voting"
                /\ Len(items) > 0 /\ items' = items
             => \/ currentJobIndex' = currentJobIndex
                \/ currentJobIndex' = currentJobIndex - 1 /\ currentJobIndex > 0
                \/ currentJobIndex' = currentJobIndex + 1
                     /\ currentJobIndex < Len(items) - 1
                \/ submitting /\ currentJobIndex' \in 0..(Len(items) - 1)]_vars

\* The voter stands on the last of several jobs, none of them voted.
C23_Witness ==
  /\ viewState = "voting"
  /\ Len(items) > 1
  /\ currentJobIndex = Len(items) - 1
  /\ DOMAIN votes = {}


(***************************************************************************)
(* The effects of the campaign voting page (SpecCampaignWeather,           *)
(* SpecCampaignTeardown).                                                  *)
(***************************************************************************)
\* The weather requests in flight for a job id, cancelled or not.
InFlightFor(key) == {request \in weatherInFlight : request.key = key}

\* C21: in the campaign voting page at most one weather request is in flight
\* for a job id at any time, however navigation between jobs and the answers
\* of the requests interleave; a step starts a request only for a job id
\* that has none in flight.
C21_OneRequestPerJob ==
  /\ [](\A request \in weatherInFlight :
          /\ Cardinality(InFlightFor(request.key)) <= 1
          /\ request.key \in weatherLoading)
  /\ [][\A request \in weatherInFlight' :
          ~request.cancelled /\ request \notin weatherInFlight
            => InFlightFor(request.key) = {}]_vars

\* The voter left a job while its request was in flight and is back on it:
\* the effect has run there and the request of the first visit is still the
\* only one.
C21_Witness ==
  /\ hasCurrent
  /\ weatherDeps = <<currentJobId, weatherCache, weatherErrors>>
  /\ currentJobId \notin DOMAIN weatherCache
  /\ currentJobId \notin DOMAIN weatherErrors
  /\ InFlightFor(currentJobId) = {[key |-> currentJobId, cancelled |-> TRUE]}

\* A weather request that was cancelled is answered in this step.
CancelledWeatherAnswered ==
  \E request \in weatherInFlight :
    request.cancelled /\ request \notin weatherInFlight'

\* C22: a request whose effect was torn down changes no state when it
\* completes: the answer of a cancelled load changes none of person,
\* assignments, error and loading, and the answer of a cancelled weather
\* request changes neither the weather cache nor the weather errors.  The
\* teardown does not abort the request: it stays in flight until answered.
C22_CancelledRequestsChangeNothing ==
  [][/\ (\E i \in 1..Len(staleLoads) : staleLoads'[i] # staleLoads[i])
          => UNCHANGED <<person, assignments, pageError, pageLoading>>
     /\ CancelledWeatherAnswered
          => UNCHANGED <<weatherCache, weatherErrors>>
     /\ reloads' # reloads /\ pagePc \in {"resolving", "listing"}
          => staleLoads' = Append(staleLoads, pagePc)
     /\ \A request \in weatherInFlight :
          ~request.cancelled /\ request \notin weatherInFlight'
            => \/ [request EXCEPT !.cancelled = TRUE] \in weatherInFlight'
               \/ weatherLoading' = weatherLoading \ {request.key}]_vars

\* A cancelled load has returned, and a weather request cancelled by a later
\* teardown is still in flight.
C22_Witness ==
  /\ \E i \in 1..Len(staleLoads) : staleLoads[i] = "returned"
  /\ \E request \in weatherInFlight : request.cancelled
  /\ pagePc = "done"
(***************************************************************************)
(* C24: the readiness checks of the campaign page.                         *)
(***************************************************************************)
\* What C24 asks of an assignment the readiness checks let through.
DelayWellFormed(assignment) ==
  /\ assignment.vote = "delay" => assignment.delay_minutes > 0
  /\ assignment.vote \in {"go", "hold"} => assignment.delay_minutes = NullNum

\* C24: whenever canAdvance, allComplete or the pre-check of submitAllVotes
\* accepts an assignment, a delay vote carries delay_minutes > 0 and a go or
\* hold vote carries no delay_minutes, whatever the voter entered through the
\* vote buttons, the preset delay buttons and the custom delay input.
C24_ReadinessImpliesDelayWellFormed ==
  /\ canAdvance => DelayWellFormed(current)
  /\ allComplete =>
       \A i \in 1..Len(assignments) : DelayWellFormed(assignments[i])
  /\ \A i \in 1..Len(assignments) :
       preCheck(assignments[i]) = NULL => DelayWellFormed(assignments[i])

(***************************************************************************)
(* C25: the aggregate counts of loadContext.                               *)
(***************************************************************************)
\* The count the backend reported under one of the two names, the first name
\* first, or NullNum when it reported neither.
Reported(first, second) == IF first # NullNum THEN first ELSE second

\* C25: after a context load each aggregate count equals the value the
\* backend reported when it reported one; otherwise total_items is the number
\* of normalized items, voted_items the number of entries of the merged vote
\* map and remaining_items is max(0, total_items - voted_items), so that a
\* derived remaining_items is never negative and never above total_items.
C25_CountsReportedOrDerived ==
  loadPhase = "done" /\ context # <<>> =>
    LET ctx == context[1]
        total == ctx.total_items
        voted == Reported(ctx.voted_items, ctx.total_voted)
        remaining == Reported(ctx.remaining_items, ctx.total_remaining)
    IN /\ counts.total_items = IF total # NullNum THEN total ELSE Len(items)
       /\ counts.voted_items =
            IF voted # NullNum THEN voted ELSE Cardinality(DOMAIN votes)
       /\ IF remaining # NullNum
          THEN counts.remaining_items = remaining
          ELSE /\ counts.remaining_items =
                    MaxOf(0, counts.total_items - counts.voted_items)
               /\ counts.remaining_items >= 0
               /\ counts.remaining_items <= counts.total_items

\* A load whose remainder is derived, from a reported voted count above the
\* derived total: the floor at zero applies.
C25_Witness ==
  /\ loadPhase = "done"
  /\ context # <<>>
  /\ context[1].total_items = NullNum
  /\ context[1].total_voted > Len(items)
  /\ context[1].voted_items = NullNum
  /\ context[1].remaining_items = NullNum
  /\ context[1].total_remaining = NullNum
  /\ Len(items) > 0
  /\ counts = [total_items |-> Len(items),
               voted_items |-> context[1].total_voted,
               remaining_items |-> 0]

(***************************************************************************)
(* C26: computePeak.                                                       *)
(***************************************************************************)
InchesOf(list) == {list[i].rainInches : i \in 1..Len(list)}
ChancesOf(list) == {list[i].rainChance : i \in 1..Len(list)}

\* The first position of the list whose entry has the most rain when some
\* entry has rain, and the highest chance of rain otherwise.
PeakPosition(list) ==
  LET mostInches == MaxOfSet(InchesOf(list))
      mostChance == MaxOfSet(ChancesOf(list))
      Peaks(i) == IF mostInches > 0
                  THEN list[i].rainInches = mostInches
                  ELSE list[i].rainChance = mostChance
  IN MinOfSet({i \in 1..Len(list) : Peaks(i)})

\* C26: for a non-empty list of hourly entries computePeak returns the first
\* entry with the maximum rain-inches when that maximum is above zero and
\* otherwise the first entry with the maximum rain-chance; for an empty list
\* it returns null.
C26_PeakIsFirstMaximum ==
  IF hourly = <<>>
  THEN peak = <<>>
  ELSE LET entry == hourly[PeakPosition(hourly)]
       IN peak = <<[time |-> entry.time,
                    rainChance |-> entry.rainChance,
                    rainInches |-> entry.rainInches]>>

\* Both paths with a tie: two hours with the most rain, the first of them is
\* the peak; or no rain at all and two hours with the highest chance.
C26_Witness ==
  /\ Len(hourly) = 3
  /\ hourly[2].rainChance = 40 /\ hourly[3].rainChance = 40
  /\ hourly[1].rainChance = 10
  /\ \/ /\ \A i \in 1..3 : hourly[i].rainInches = 0
        /\ peak = <<[time |-> HourOf(2), rainChance |-> 40, rainInches |-> 0]>>
     \/ /\ hourly[1].rainInches = 5
        /\ hourly[2].rainInches = 20 /\ hourly[3].rainInches = 20
        /\ peak = <<[time |-> HourOf(2), rainChance |-> 40, rainInches |-> 20]>>

(***************************************************************************)
(* C27: the local vote map across submissions.                             *)
(***************************************************************************)
\* The step is the continuation of submitVote after an OK response to the
\* request at position r.
SucceededAt(r) ==
  /\ requests' = RemoveAt(requests, r)
  /\ Len(timers') = Len(timers) + 1

\* C27: a vote recorded in the local vote map after a successful submission
\* is never removed or reverted by a later successful submission on another
\* item, however arrow-key navigation, submissions in flight and the delayed
\* transition interleave: a successful submission only adds its key to the
\* map or overwrites it.
C27_SubmissionKeepsOtherVotes ==
  [][\A r \in DOMAIN requests :
       SucceededAt(r) =>
         \A key \in DOMAIN votes :
           key \in DOMAIN backendVotes /\ votes[key] = backendVotes[key]
             /\ key # requests[r].key
             => key \in DOMAIN votes' /\ votes'[key] = votes[key]]_vars

(***************************************************************************)
(* C28: the weather of the job the voter stays on.                         *)
(***************************************************************************)
JobKeys == {ToString(100 + i) : i \in 1..MaxAssignments}

\* The panel of the job no longer shows "Loading weather...".
WeatherSettled(key) ==
  weatherCached(weatherCache, key) \/ key \in DOMAIN weatherErrors

\* C28: if the voter remains on a job and every issued request completes,
\* the weather of that job eventually is cached (payload or null) or marked
\* as failed, whatever navigation away from the job and back happened while
\* its request was in flight.
C28_WeatherEventuallySettles ==
  \A key \in JobKeys :
    <>[](votingFormShown /\ currentJobId = key) => <>WeatherSettled(key)

(***************************************************************************)
(* C29: the invite status of a person.                                     *)
(***************************************************************************)
\* C29: a person's invite status only moves forward through viewed, started,
\* completed: no resolve, submit or complete request moves it from completed
\* back to started or viewed, or from started back to viewed.
C29_InviteStatusOnlyForward ==
  [][\A i \in 1..Len(dbPerson) :
       /\ dbPerson[i].invite_status = "completed"
            => dbPerson'[i].invite_status \notin {"started", "viewed"}
       /\ dbPerson[i].invite_status = "started"
            => dbPerson'[i].invite_status # "viewed"]_vars

(***************************************************************************)
(* C30: submitAllVotes and the completion screen.                          *)
(***************************************************************************)
IdsOf(list, n) == {list[i].assignmentId : i \in 1..n}

\* The step puts the page on the completion screen.
ReachesCompletion ==
  /\ Len(assignments') > 0
  /\ currentIndex' = Len(assignments')
  /\ currentIndex # currentIndex'

\* The step is the end of a submitAllVotes whose submission in flight failed.
RunEndsOnFailedSubmission == saPc = "submitting" /\ saPc' = "idle"

\* C30: the completion screen (currentIndex = assignments.length) is reached
\* only after submitAllVotes received a successful response for every
\* assignment, the assignments being sent one at a time in list order; when
\* a submission fails no later assignment is sent, the current index and
\* the local assignments stay as they are, the error message is set and
\* the saving flag is false again.
C30_CompletionOnlyAfterAllSubmitted ==
  [][/\ saPc' = "submitting" =>
          /\ saRequest' = <<submitBody(saSnapshot'[saPos'])>>
          /\ DOMAIN saUpdates' = IdsOf(saSnapshot', saPos' - 1)
          /\ saPc = "submitting" /\ saPos' # saPos => saPos' = saPos + 1
     /\ ReachesCompletion =>
          /\ saPc = "finishing"
          /\ Len(saSnapshot) = Len(assignments)
          /\ DOMAIN saUpdates = IdsOf(assignments, Len(assignments))
     /\ RunEndsOnFailedSubmission =>
          /\ saRequest' = <<>>
          /\ UNCHANGED <<currentIndex, assignments>>
          /\ saveError' # NULL
          /\ saving' = FALSE]_vars

\* The completion screen of the longest list after a finished run: every
\* assignment carries what the backend returned, no error is shown and
\* nothing is in flight.
C30_Witness ==
  /\ Len(assignments) = MaxAssignments
  /\ currentIndex = Len(assignments)
  /\ \A i \in 1..Len(assignments) :
       assignments[i].status = "voted" /\ assignments[i].voted_at = "now"
  /\ saPc = "idle"
  /\ ~saving
  /\ saveError = NULL
  /\ completeOutcome # NULL

====
